---------------------------- MODULE Spec2Model ----------------------------
(***************************************************************************)
(* Model of gymnarium_application: the capability catalog and its          *)
(* resolver (src/src/availables.rs), the configuration-string parser and    *)
(* the two front-ends (src/src/main.rs) and the simulation drivers with     *)
(* their load/store helpers (src/src/runs.rs).                              *)
(*                                                                         *)
(* Text is modelled as a sequence of one-character strings, so that case    *)
(* folding, suffix tests, escaping and number parsing are computed and not  *)
(* assumed.                                                                 *)
(***************************************************************************)
EXTENDS Integers, Sequences, FiniteSets, TLC

(***************************************************************************)
(* Bounds of the model.                                                    *)
(***************************************************************************)
\* how many characters of a name are retyped in the other letter case
MaxEdits == 1

\* how many entries a configuration map given to select holds
MaxConfigEntries == 2

\* how many characters of a configuration string are typed
MaxInputLen == 4

\* how many pairs a map written out as a configuration string holds
MaxPairs == 2

\* how many calls of the load/store helpers are made in a row
MaxCalls == 2

\* the largest count_of_episodes given to EpisodesSimulated
MaxEpisodes == 2

\* how many steps the window driver is followed within one episode
MaxSteps == 3

(***************************************************************************)
(* Text helpers.                                                           *)
(***************************************************************************)
UpperChars ==
  <<"A","B","C","D","E","F","G","H","I","J","K","L","M",
    "N","O","P","Q","R","S","T","U","V","W","X","Y","Z">>

LowerChars ==
  <<"a","b","c","d","e","f","g","h","i","j","k","l","m",
    "n","o","p","q","r","s","t","u","v","w","x","y","z">>

LetterIndex(chars, c) == CHOOSE i \in 1..26 : chars[i] = c

IsUpper(c) == \E i \in 1..26 : UpperChars[i] = c

IsLower(c) == \E i \in 1..26 : LowerChars[i] = c

\* char::to_lowercase on the ASCII range
CharToLower(c) == IF IsUpper(c) THEN LowerChars[LetterIndex(UpperChars, c)] ELSE c

CharToUpper(c) == IF IsLower(c) THEN UpperChars[LetterIndex(LowerChars, c)] ELSE c

\* the other letter case of a character (a non-letter has none)
OtherCase(c) == IF IsUpper(c) THEN CharToLower(c) ELSE CharToUpper(c)

\* str::to_lowercase
to_lowercase(str) == [i \in 1..Len(str) |-> CharToLower(str[i])]

to_uppercase(str) == [i \in 1..Len(str) |-> CharToUpper(str[i])]

\* str::starts_with / str::ends_with
starts_with(str, prefix) ==
  /\ Len(prefix) <= Len(str)
  /\ SubSeq(str, 1, Len(prefix)) = prefix

ends_with(str, suffix) ==
  /\ Len(suffix) <= Len(str)
  /\ SubSeq(str, Len(str) - Len(suffix) + 1, Len(str)) = suffix

RangeOf(seq) == {seq[i] : i \in 1..Len(seq)}

(***************************************************************************)
(* Capability catalog (availables.rs).                                     *)
(***************************************************************************)
Categories == {"Environment", "Agent", "Visualiser", "ExitCondition"}

\* Available::values(), in declaration order
values(cat) ==
  CASE cat = "Environment"   -> <<"GymMountainCar", "CodeBulletAiLearnsToDrive">>
    [] cat = "Agent"         -> <<"Random", "Input">>
    [] cat = "Visualiser"    -> <<"None", "PistonIn2d">>
    [] cat = "ExitCondition" -> <<"EpisodesSimulated", "VisualiserClosed">>

Variants(cat) == RangeOf(values(cat))

nice_name(v) ==
  CASE v = "GymMountainCar" -> <<"G","y","m"," ","M","o","u","n","t","a","i","n","C","a","r">>
    [] v = "CodeBulletAiLearnsToDrive" -> <<"C","o","d","e"," ","B","u","l","l","e","t"," ","A","I"," ","L","e","a","r","n","s"," ","t","o"," ","D","R","I","V","E">>
    [] v = "Random" -> <<"R","a","n","d","o","m">>
    [] v = "Input" -> <<"I","n","p","u","t">>
    [] v = "None" -> <<"N","o","n","e">>
    [] v = "PistonIn2d" -> <<"P","i","s","t","o","n"," ","i","n"," ","2","D">>
    [] v = "EpisodesSimulated" -> <<"e","p","i","s","o","d","e","s"," ","d","o","n","e"," ","s","i","m","u","l","a","t","i","n","g">>
    [] v = "VisualiserClosed" -> <<"v","i","s","u","a","l","i","s","e","r"," ","i","s"," ","c","l","o","s","e","d">>

long_name(v) ==
  CASE v = "GymMountainCar" -> <<"g","y","m","_","m","o","u","n","t","a","i","n","c","a","r">>
    [] v = "CodeBulletAiLearnsToDrive" -> <<"c","o","d","e","_","b","u","l","l","e","t","_","a","i","_","l","e","a","r","n","s","_","t","o","_","d","r","i","v","e">>
    [] v = "Random" -> <<"r","a","n","d","o","m">>
    [] v = "Input" -> <<"i","n","p","u","t">>
    [] v = "None" -> <<"n","o","n","e">>
    [] v = "PistonIn2d" -> <<"p","i","s","t","o","n","2","d">>
    [] v = "EpisodesSimulated" -> <<"e","p","i","s","o","d","e","s","_","d","o","n","e","_","s","i","m","u","l","a","t","i","n","g">>
    [] v = "VisualiserClosed" -> <<"v","i","s","u","a","l","i","s","e","r","_","i","s","_","c","l","o","s","e","d">>

short_name(v) ==
  CASE v = "GymMountainCar" -> <<"g","_","m","c">>
    [] v = "CodeBulletAiLearnsToDrive" -> <<"c","b","_","d","r","i","v","e">>
    [] v = "Random" -> <<"r","a","n","d">>
    [] v = "Input" -> <<"i","n","p">>
    [] v = "None" -> <<"n","o","n","e">>
    [] v = "PistonIn2d" -> <<"p","i","2","d">>
    [] v = "EpisodesSimulated" -> <<"e","p","s","d","o","n","e">>
    [] v = "VisualiserClosed" -> <<"v","i","s","c","l","o","s","e","d">>

\* the words the four from_str implementations put into their error text
NotFoundIn(cat) ==
  CASE cat = "Environment"   -> "available environments"
    [] cat = "Agent"         -> "available agents"
    [] cat = "Visualiser"    -> "available visualisers"
    [] cat = "ExitCondition" -> "available exit conditions"

\* a from_str that forgets the short name
NameMatchesNoShort(element, lower_s) ==
  \/ to_lowercase(nice_name(element)) = lower_s
  \/ to_lowercase(long_name(element)) = lower_s

\* the closure given to find() in from_str
NameMatches(element, lower_s) ==
  \/ to_lowercase(nice_name(element)) = lower_s
  \/ to_lowercase(long_name(element)) = lower_s
  \/ to_lowercase(short_name(element)) = lower_s

\* Iterator::find over values(): the first element that matches, if any
RECURSIVE FindFrom(_, _, _)
FindFrom(vals, i, lower_s) ==
  IF i > Len(vals) THEN "NotFound"
  ELSE IF NameMatches(vals[i], lower_s) THEN vals[i]
  ELSE FindFrom(vals, i + 1, lower_s)

\* impl FromStr for Available{Environment,Agent,Visualiser,ExitCondition}
from_str(cat, str) ==
  LET lower_s == to_lowercase(str)
      found   == FindFrom(values(cat), 1, lower_s)
  IN IF found = "NotFound"
     THEN [ok |-> FALSE, not_found |-> lower_s, searched |-> NotFoundIn(cat)]
     ELSE [ok |-> TRUE, available |-> found]

(***************************************************************************)
(* Parsing of option texts (the str::parse calls of availables.rs).        *)
(***************************************************************************)
Digits == <<"0","1","2","3","4","5","6","7","8","9">>

IsDigit(c) == \E i \in 1..10 : Digits[i] = c

\* char::to_digit(10)
DigitValue(c) == (CHOOSE i \in 1..10 : Digits[i] = c) - 1

\* a numeral without its leading zeros (<<>> for zero)
StripLeadingZeros(ds) ==
  IF \A i \in 1..Len(ds) : ds[i] = "0" THEN <<>>
  ELSE LET first == CHOOSE i \in 1..Len(ds) :
                      ds[i] # "0" /\ \A j \in 1..(i - 1) : ds[j] = "0"
       IN SubSeq(ds, first, Len(ds))

StripTrailingZeros(ds) ==
  IF \A i \in 1..Len(ds) : ds[i] = "0" THEN <<>>
  ELSE LET last == CHOOSE i \in 1..Len(ds) :
                     ds[i] # "0" /\ \A j \in (i + 1)..Len(ds) : ds[j] = "0"
       IN SubSeq(ds, 1, last)

\* a > b for two numerals without leading zeros
NumeralGreater(a, b) ==
  IF Len(a) # Len(b) THEN Len(a) > Len(b)
  ELSE \E i \in 1..Len(a) :
         /\ DigitValue(a[i]) > DigitValue(b[i])
         /\ \A j \in 1..(i - 1) : a[j] = b[j]

\* u32::MAX and u128::MAX; an unsigned value is kept as its decimal numeral
\* without leading zeros (<<>> is zero), so that no width is lost
U32Max == <<"4","2","9","4","9","6","7","2","9","5">>

U128Max == <<"3","4","0","2","8","2","3","6","6","9","2","0","9","3","8","4","6","3","4","6","3","3","7","4","6","0","7","4","3","1","7","6","8","2","1","1","4","5","5">>

\* the digit loop of from_str_radix: it stops at the first character that
\* is no digit or whose prefix no longer fits, whichever comes first
AccumulateDigits(digits, max) ==
  LET bad == {i \in 1..Len(digits) :
                \/ ~IsDigit(digits[i])
                \/ /\ \A j \in 1..i : IsDigit(digits[j])
                   /\ NumeralGreater(StripLeadingZeros(SubSeq(digits, 1, i)), max)}
  IN IF bad = {} THEN [ok |-> TRUE, value |-> StripLeadingZeros(digits)]
     ELSE LET first == CHOOSE i \in bad : \A j \in bad : i <= j
          IN IF ~IsDigit(digits[first])
             THEN [ok |-> FALSE, cause |-> "invalid digit found in string"]
             ELSE [ok |-> FALSE, cause |-> "number too large to fit in target type"]

\* str::parse::<u32>() / str::parse::<u128>() (core::num from_str_radix, radix 10)
ParseUnsigned(text, max) ==
  IF text = <<>>
  THEN [ok |-> FALSE, cause |-> "cannot parse integer from empty string"]
  ELSE IF text = <<"+">> \/ text = <<"-">>
  THEN [ok |-> FALSE, cause |-> "invalid digit found in string"]
  ELSE AccumulateDigits(IF Head(text) = "+" THEN Tail(text) ELSE text, max)

\* eat_digits: the longest prefix of digits
LeadingDigits(text) ==
  LET stops == {i \in 1..Len(text) : ~IsDigit(text[i])}
  IN IF stops = {} THEN text
     ELSE SubSeq(text, 1, (CHOOSE i \in stops : \A j \in stops : i <= j) - 1)

\* str::parse::<bool>()
ParseBool(text) ==
  IF text = <<"t","r","u","e">> THEN [ok |-> TRUE, value |-> TRUE]
  ELSE IF text = <<"f","a","l","s","e">> THEN [ok |-> TRUE, value |-> FALSE]
  ELSE [ok |-> FALSE, cause |-> "provided string was not true or false"]

\* small numeral to integer (exponents only)
RECURSIVE NumeralToNat(_)
NumeralToNat(ds) ==
  IF ds = <<>> THEN 0
  ELSE 10 * NumeralToNat(SubSeq(ds, 1, Len(ds) - 1)) + DigitValue(ds[Len(ds)])

\* A float is kept as sign, significant digits (no leading, no trailing zero)
\* and decimal exponent: digits * 10^exp.  Texts stay below the 17 digits
\* where binary rounding would merge neighbours.
Float(neg, integral, fractional, e) ==
  LET all == StripLeadingZeros(integral \o fractional)
      sig == StripTrailingZeros(all)
  IN [neg |-> neg, digits |-> sig,
      exp |-> IF sig = <<>> THEN 0 ELSE e - Len(fractional) + (Len(all) - Len(sig))]

InvalidFloat == [ok |-> FALSE, cause |-> "invalid float literal"]

\* dec2flt parse_exp
ParseExp(neg, integral, fractional, rest) ==
  LET signed == rest # <<>> /\ Head(rest) \in {"+", "-"}
      body   == IF signed THEN Tail(rest) ELSE rest
      number == LeadingDigits(body)
  IN IF number = <<>> \/ Len(number) # Len(body) THEN InvalidFloat
     ELSE [ok |-> TRUE,
           value |-> Float(neg, integral, fractional,
                           IF signed /\ Head(rest) = "-"
                           THEN 0 - NumeralToNat(number) ELSE NumeralToNat(number))]

\* str::parse::<f64>() (core::num::dec2flt: extract_sign, parse_decimal) on
\* decimal literals; "inf" and "NaN" are not among the texts of the model
ParseF64(text) ==
  IF text = <<>>
  THEN [ok |-> FALSE, cause |-> "cannot parse float from empty string"]
  ELSE
    LET signed   == Head(text) \in {"+", "-"}
        neg      == Head(text) = "-"
        body     == IF signed THEN Tail(text) ELSE text
        integral == LeadingDigits(body)
        rest     == SubSeq(body, Len(integral) + 1, Len(body))
    IN IF body = <<>> THEN InvalidFloat
       ELSE IF rest = <<>> THEN [ok |-> TRUE, value |-> Float(neg, integral, <<>>, 0)]
       ELSE IF Head(rest) \in {"e", "E"}
       THEN IF integral = <<>> THEN InvalidFloat
            ELSE ParseExp(neg, integral, <<>>, Tail(rest))
       ELSE IF Head(rest) = "."
       THEN LET fractional == LeadingDigits(Tail(rest))
                rest2 == SubSeq(rest, Len(fractional) + 2, Len(rest))
            IN IF integral = <<>> /\ fractional = <<>> THEN InvalidFloat
               ELSE IF rest2 = <<>>
               THEN [ok |-> TRUE, value |-> Float(neg, integral, fractional, 0)]
               ELSE IF Head(rest2) \in {"e", "E"}
               THEN ParseExp(neg, integral, fractional, Tail(rest2))
               ELSE InvalidFloat
       ELSE InvalidFloat

IsWhitespace(c) == c \in {" ", "\t", "\n", "\r"}

\* str::trim
RECURSIVE trim(_)
trim(text) ==
  IF text # <<>> /\ IsWhitespace(Head(text)) THEN trim(Tail(text))
  ELSE IF text # <<>> /\ IsWhitespace(text[Len(text)])
  THEN trim(SubSeq(text, 1, Len(text) - 1))
  ELSE text

\* str::split(','): the pieces between the commas, at least one piece
RECURSIVE split(_, _)
split(text, sep) ==
  IF \E i \in 1..Len(text) : text[i] = sep
  THEN LET i == CHOOSE k \in 1..Len(text) :
                  text[k] = sep /\ \A j \in 1..(k - 1) : text[j] # sep
       IN <<SubSeq(text, 1, i - 1)>> \o split(SubSeq(text, i + 1, Len(text)), sep)
  ELSE <<text>>

\* collect::<Result<Vec<u32>, ParseIntError>>(): the first error, else all values
RECURSIVE CollectU32(_)
CollectU32(pieces) ==
  IF pieces = <<>> THEN [ok |-> TRUE, value |-> <<>>]
  ELSE LET first == ParseUnsigned(trim(Head(pieces)), U32Max)
       IN IF ~first.ok THEN first
          ELSE LET others == CollectU32(Tail(pieces))
               IN IF ~others.ok THEN others
                  ELSE [ok |-> TRUE, value |-> <<first.value>> \o others.value]

\* a parser that takes off the first and the last character whatever they are
tuple_u32_u32_from_str_always_stripping(s) ==
  LET inner   == SubSeq(s, 2, Len(s) - 1)
      numbers == CollectU32(split(inner, ","))
  IN IF ~numbers.ok THEN [ok |-> FALSE, panicked |-> FALSE, cause |-> numbers.cause]
     ELSE IF Len(numbers.value) < 2
     THEN [ok |-> FALSE, panicked |-> TRUE, cause |-> "index out of bounds"]
     ELSE [ok |-> TRUE, value |-> <<numbers.value[1], numbers.value[2]>>]

\* fn tuple_u32_u32_from_str inside AvailableVisualiser::select; indexing
\* numbers[1] of a one-element vector panics
tuple_u32_u32_from_str(s) ==
  LET inner   == IF starts_with(s, <<"(">>) /\ ends_with(s, <<")">>)
                 THEN SubSeq(s, 2, Len(s) - 1) ELSE s
      numbers == CollectU32(split(inner, ","))
  IN IF ~numbers.ok THEN [ok |-> FALSE, panicked |-> FALSE, cause |-> numbers.cause]
     ELSE IF Len(numbers.value) < 2
     THEN [ok |-> FALSE, panicked |-> TRUE, cause |-> "index out of bounds"]
     ELSE [ok |-> TRUE, value |-> <<numbers.value[1], numbers.value[2]>>]

(***************************************************************************)
(* Option descriptors and the resolver (Available::select).                *)
(***************************************************************************)
goal_velocity == <<"g","o","a","l","_","v","e","l","o","c","i","t","y">>

sensor_lines_visible == <<"s","e","n","s","o","r","_","l","i","n","e","s","_","v","i","s","i","b","l","e">>

track_visible == <<"t","r","a","c","k","_","v","i","s","i","b","l","e">>

window_title == <<"w","i","n","d","o","w","_","t","i","t","l","e">>

window_dimension == <<"w","i","n","d","o","w","_","d","i","m","e","n","s","i","o","n">>

count_of_episodes == <<"c","o","u","n","t","_","o","f","_","e","p","i","s","o","d","e","s">>

\* Available::available_configurations(): name, default text and declared
\* type of every option (the description is prose for the user)
available_configurations(v) ==
  CASE v = "GymMountainCar" ->
         << [name |-> goal_velocity, default |-> <<"0",".","0">>, data_type |-> "f64"] >>
    [] v = "CodeBulletAiLearnsToDrive" ->
         << [name |-> sensor_lines_visible, default |-> <<"f","a","l","s","e">>,
             data_type |-> "bool"],
            [name |-> track_visible, default |-> <<"t","r","u","e">>,
             data_type |-> "bool"] >>
    [] v = "PistonIn2d" ->
         << [name |-> window_title,
             default |-> <<"G","y","m","n","a","r","i","u","m"," ","A","p","p","l","i","c","a","t","i","o","n">>,
             data_type |-> "String"],
            [name |-> window_dimension,
             default |-> <<"(","6","4","0",","," ","4","8","0",")">>,
             data_type |-> "(u32, u32)"] >>
    [] v = "EpisodesSimulated" ->
         << [name |-> count_of_episodes, default |-> <<"2","0">>, data_type |-> "u128"] >>
    [] v \in {"Random", "Input", "None", "VisualiserClosed"} -> << >>

\* unwrap_or_default() in place of unwrap_or_else(|| default)
RemoveOrBlank(configuration, key, default) ==
  IF key \in DOMAIN configuration THEN configuration[key] ELSE <<>>

\* HashMap::remove(key).unwrap_or_else(|| default)
RemoveOr(configuration, key, default) ==
  IF key \in DOMAIN configuration THEN configuration[key] ELSE default

SelectOk(selected) == [ok |-> TRUE, selected |-> selected]

\* impl From<Parse{Float,Bool,Int}Error> for SelectError
SelectParseError(cause) == [ok |-> FALSE, error |-> "ParseError", cause |-> cause]

SelectPanic(cause) == [ok |-> FALSE, error |-> "panic", cause |-> cause]

\* AvailableEnvironment::select
select_environment(v, configuration) ==
  CASE v = "GymMountainCar" ->
         LET gv == ParseF64(RemoveOr(configuration, goal_velocity, <<"0",".","0">>))
         IN IF ~gv.ok THEN SelectParseError(gv.cause)
            ELSE SelectOk([case |-> "SelectedEnvironment::GymMountainCar",
                           goal_velocity |-> gv.value])
    [] v = "CodeBulletAiLearnsToDrive" ->
         LET slv == ParseBool(RemoveOr(configuration, sensor_lines_visible,
                                       <<"f","a","l","s","e">>))
             tv  == ParseBool(RemoveOr(configuration, track_visible, <<"t","r","u","e">>))
         IN IF ~slv.ok THEN SelectParseError(slv.cause)
            ELSE IF ~tv.ok THEN SelectParseError(tv.cause)
            ELSE SelectOk([case |-> "SelectedEnvironment::CodeBulletAiLearnsToDrive",
                           sensor_lines_visible |-> slv.value,
                           track_visible |-> tv.value])

\* AvailableAgent::select
select_agent(v, configuration) ==
  CASE v = "Random" -> SelectOk([case |-> "SelectedAgent::Random"])
    [] v = "Input"  -> SelectOk([case |-> "SelectedAgent::Input"])

\* window_dimension of AvailableVisualiser::select:
\* remove(..).and_then(|value| tuple_u32_u32_from_str(&value).ok())
\*           .or(Some((640, 480))).unwrap()
window_dimension_of(configuration) ==
  IF window_dimension \in DOMAIN configuration
  THEN LET parsed == tuple_u32_u32_from_str(configuration[window_dimension])
       IN IF parsed.ok THEN [ok |-> TRUE, value |-> parsed.value]
          ELSE IF parsed.panicked THEN parsed
          ELSE [ok |-> TRUE, value |-> << <<"6","4","0">>, <<"4","8","0">> >>]
  ELSE [ok |-> TRUE, value |-> << <<"6","4","0">>, <<"4","8","0">> >>]

\* AvailableVisualiser::select
select_visualiser(v, configuration) ==
  CASE v = "None" -> SelectOk([case |-> "SelectedVisualiser::None"])
    [] v = "PistonIn2d" ->
         LET wt == RemoveOr(configuration, window_title,
                     <<"G","y","m","n","a","r","i","u","m"," ","A","p","p","l","i","c","a","t","i","o","n">>)
             wd == window_dimension_of(configuration)
         IN IF ~wd.ok
            THEN IF wd.panicked THEN SelectPanic(wd.cause) ELSE SelectParseError(wd.cause)
            ELSE SelectOk([case |-> "SelectedVisualiser::PistonIn2d",
                           window_title |-> wt,
                           window_dimension |-> wd.value])

\* AvailableExitCondition::select
select_exit_condition(v, configuration) ==
  CASE v = "EpisodesSimulated" ->
         LET n == ParseUnsigned(RemoveOr(configuration, count_of_episodes, <<"2","0">>),
                                U128Max)
         IN IF ~n.ok THEN SelectParseError(n.cause)
            ELSE SelectOk([case |-> "SelectedExitCondition::EpisodesSimulated",
                           count_of_episodes |-> n.value])
    [] v = "VisualiserClosed" ->
         SelectOk([case |-> "SelectedExitCondition::VisualiserClosed"])

\* a resolver that refuses a map with a key it has not consumed
select_rejecting_unknown(cat, v, configuration) ==
  IF \E k \in DOMAIN configuration :
       \A i \in 1..Len(available_configurations(v)) :
         available_configurations(v)[i].name # k
  THEN SelectParseError("unknown option")
  ELSE CASE cat = "Environment"   -> select_environment(v, configuration)
         [] cat = "Agent"         -> select_agent(v, configuration)
         [] cat = "Visualiser"    -> select_visualiser(v, configuration)
         [] cat = "ExitCondition" -> select_exit_condition(v, configuration)

\* Available::select, by category
select(cat, v, configuration) ==
  CASE cat = "Environment"   -> select_environment(v, configuration)
    [] cat = "Agent"         -> select_agent(v, configuration)
    [] cat = "Visualiser"    -> select_visualiser(v, configuration)
    [] cat = "ExitCondition" -> select_exit_condition(v, configuration)

\* a match with two arms of SelectedEnvironment exchanged
corresponding_available_swapped(selected) ==
  CASE selected.case = "SelectedEnvironment::GymMountainCar" -> "CodeBulletAiLearnsToDrive"
    [] selected.case = "SelectedEnvironment::CodeBulletAiLearnsToDrive" -> "GymMountainCar"
    [] selected.case = "SelectedAgent::Random" -> "Random"
    [] selected.case = "SelectedAgent::Input" -> "Input"
    [] selected.case = "SelectedVisualiser::None" -> "None"
    [] selected.case = "SelectedVisualiser::PistonIn2d" -> "PistonIn2d"
    [] selected.case = "SelectedExitCondition::EpisodesSimulated" -> "EpisodesSimulated"
    [] selected.case = "SelectedExitCondition::VisualiserClosed" -> "VisualiserClosed"

\* Selected::corresponding_available, the match of each of the four impls
corresponding_available(selected) ==
  CASE selected.case = "SelectedEnvironment::GymMountainCar" -> "GymMountainCar"
    [] selected.case = "SelectedEnvironment::CodeBulletAiLearnsToDrive" ->
         "CodeBulletAiLearnsToDrive"
    [] selected.case = "SelectedAgent::Random" -> "Random"
    [] selected.case = "SelectedAgent::Input" -> "Input"
    [] selected.case = "SelectedVisualiser::None" -> "None"
    [] selected.case = "SelectedVisualiser::PistonIn2d" -> "PistonIn2d"
    [] selected.case = "SelectedExitCondition::EpisodesSimulated" -> "EpisodesSimulated"
    [] selected.case = "SelectedExitCondition::VisualiserClosed" -> "VisualiserClosed"

(***************************************************************************)
(* The configuration-string grammar (split_config in main.rs).             *)
(***************************************************************************)
\* HashMap::insert
Insert(map, key, value) ==
  [k \in DOMAIN map \cup {key} |-> IF k = key THEN value ELSE map[k]]

\* the locals of split_config before the loop
ScanStart ==
  [output |-> << >>, key |-> <<>>, value |-> <<>>,
   currently_parsing_value |-> FALSE, next_escaped |-> FALSE]

\* a loop body in which '=' ends the key even after a backslash
ScanCharEqualsAlwaysSeparates(st, c) ==
  IF ~st.next_escaped /\ c = "\\"
  THEN [st EXCEPT !.next_escaped = TRUE]
  ELSE IF ~st.currently_parsing_value /\ c = "="
  THEN [st EXCEPT !.currently_parsing_value = TRUE, !.next_escaped = FALSE]
  ELSE IF ~st.next_escaped /\ st.currently_parsing_value /\ c = ";"
  THEN [st EXCEPT !.output = Insert(st.output, st.key, st.value),
                  !.key = <<>>, !.value = <<>>,
                  !.currently_parsing_value = FALSE]
  ELSE IF st.currently_parsing_value
  THEN [st EXCEPT !.next_escaped = FALSE, !.value = Append(st.value, c)]
  ELSE [st EXCEPT !.next_escaped = FALSE, !.key = Append(st.key, c)]

\* a loop body that knows no escape character
ScanCharNoEscape(st, c) ==
  IF ~st.currently_parsing_value /\ c = "="
  THEN [st EXCEPT !.currently_parsing_value = TRUE]
  ELSE IF st.currently_parsing_value /\ c = ";"
  THEN [st EXCEPT !.output = Insert(st.output, st.key, st.value),
                  !.key = <<>>, !.value = <<>>,
                  !.currently_parsing_value = FALSE]
  ELSE IF st.currently_parsing_value
  THEN [st EXCEPT !.value = Append(st.value, c)]
  ELSE [st EXCEPT !.key = Append(st.key, c)]

\* the body of the for loop of split_config, for one character c
ScanChar(st, c) ==
  IF ~st.next_escaped /\ c = "\\"
  THEN [st EXCEPT !.next_escaped = TRUE]
  ELSE IF ~st.next_escaped /\ ~st.currently_parsing_value /\ c = "="
  THEN [st EXCEPT !.currently_parsing_value = TRUE]
  ELSE IF ~st.next_escaped /\ st.currently_parsing_value /\ c = ";"
  THEN [st EXCEPT !.output = Insert(st.output, st.key, st.value),
                  !.key = <<>>, !.value = <<>>,
                  !.currently_parsing_value = FALSE]
  ELSE IF st.currently_parsing_value
  THEN [st EXCEPT !.next_escaped = FALSE, !.value = Append(st.value, c)]
  ELSE [st EXCEPT !.next_escaped = FALSE, !.key = Append(st.key, c)]

RECURSIVE ScanFrom(_, _, _)
ScanFrom(st, str, i) ==
  IF i > Len(str) THEN st ELSE ScanFrom(ScanChar(st, str[i]), str, i + 1)

\* a split_config without the insert after the loop
split_config_without_last(configuration_string) ==
  ScanFrom(ScanStart, configuration_string, 1).output

\* fn split_config(configuration_string: &str) -> HashMap<String, String>
split_config(configuration_string) ==
  LET st == ScanFrom(ScanStart, configuration_string, 1)
  IN IF st.currently_parsing_value
     THEN Insert(st.output, st.key, st.value)
     ELSE st.output

\* The writer the grammar's description implies; the program has none.
\* A backslash goes before every ';' and every '\'.
RECURSIVE Escape(_)
Escape(text) ==
  IF text = <<>> THEN <<>>
  ELSE (IF Head(text) \in {";", "\\"} THEN <<"\\", Head(text)>> ELSE <<Head(text)>>)
       \o Escape(Tail(text))

\* key=value pairs joined by ';', the keys taken in the given order
RECURSIVE Serialize(_, _)
Serialize(map, order) ==
  IF order = <<>> THEN <<>>
  ELSE Escape(Head(order)) \o <<"=">> \o Escape(map[Head(order)])
       \o (IF Len(order) > 1 THEN <<";">> ELSE <<>>)
       \o Serialize(map, Tail(order))

(***************************************************************************)
(* Load and store (runs.rs).  A file holds the encoding it was written in   *)
(* and the data written, or nothing readable after a failed write.         *)
(***************************************************************************)
\* a dispatch in which the last else branch writes the binary encoding
FormatOrBinary(path) ==
  IF ends_with(path, <<".","j","s","o","n">>) THEN "json"
  ELSE IF ends_with(path, <<".","r","o","n">>) THEN "ron"
  ELSE "bin"

\* the if / else-if chain over the file-name suffix, the same in
\* load_environment, load_agent, store_environment and store_agent
Format(path) ==
  IF ends_with(path, <<".","j","s","o","n">>) THEN "json"
  ELSE IF ends_with(path, <<".","r","o","n">>) THEN "ron"
  ELSE IF ends_with(path, <<".","b","i","n">>) THEN "bin"
  ELSE "unknown"

\* the error variant the codec of a format converts into
CodecError(format) ==
  CASE format = "json" -> "SerdeJsonError"
    [] format = "ron"  -> "RonError"
    [] format = "bin"  -> "BincodeError"

\* what can go wrong in a call besides the suffix: the file system refuses,
\* the codec fails, the component refuses the data
Faults == {"none", "io", "codec", "component"}

Outcome(error, path, data, files, touched) ==
  [error |-> error, path |-> path, data |-> data, files |-> files, touched |-> touched]

\* what a file holds after a write that failed part way
Unreadable == [format |-> "none", data |-> "none"]

\* load_environment / load_agent: File::open, then the decoder, then
\* Environment::load / Agent::load, each ending the call on its error
load_from(path, files, current, fault) ==
  LET format == Format(path)
  IN IF format = "unknown"
     THEN Outcome("UnknownFormat", path, current, files, {})
     ELSE IF path \notin DOMAIN files \/ fault = "io"
     THEN Outcome("IoError", path, current, files, {path})
     ELSE IF files[path].format # format \/ fault = "codec"
     THEN Outcome(CodecError(format), path, current, files, {path})
     ELSE IF fault = "component"
     THEN Outcome("EnvironmentAgentError", path, current, files, {path})
     ELSE Outcome("none", path, files[path].data, files, {path})

load_environment(environment_load_path_string, files, environment, fault) ==
  load_from(environment_load_path_string, files, environment, fault)

load_agent(agent_load_path_string, files, agent, fault) ==
  load_from(agent_load_path_string, files, agent, fault)

\* store_environment / store_agent: File::create (the file exists and is
\* empty from then on), then the encoder writes Environment::store() /
\* Agent::store()
store_to(path, files, current, fault) ==
  LET format == Format(path)
  IN IF format = "unknown"
     THEN Outcome("UnknownFormat", path, current, files, {})
     ELSE IF fault = "io"
     THEN Outcome("IoError", path, current, files, {path})
     ELSE IF fault = "codec"
     THEN Outcome(CodecError(format), path, current,
                  Insert(files, path, Unreadable), {path})
     ELSE Outcome("none", path, current,
                  Insert(files, path, [format |-> format, data |-> current]), {path})

store_environment(environment_store_path_string, files, environment, fault) ==
  store_to(environment_store_path_string, files, environment, fault)

store_agent(agent_store_path_string, files, agent, fault) ==
  store_to(agent_store_path_string, files, agent, fault)

(***************************************************************************)
(* The drivers (runs.rs) and the exit conditions built for them (main.rs).  *)
(***************************************************************************)
\* the step count beyond which run_with_no_visualiser starts a new episode
StepLimit == 2000

\* an exit condition that lets one more episode run
create_exit_condition_episodes_simulated_one_more(count, episode) ==
  episode > count

\* |_environment, _agent, episode, _step| episode >= count
create_exit_condition_episodes_simulated_no_visualiser(count, episode) ==
  episode >= count

\* a closure of the window driver that looks at the window only
create_exit_condition_episodes_simulated_ignoring_count(count, is_open, episode) ==
  ~is_open

\* |_, _, visualiser, episode, _| !visualiser.is_open() || episode >= count
create_exit_condition_episodes_simulated_two_dimensional_visualiser(count, is_open, episode) ==
  ~is_open \/ episode >= count

\* |_, _, visualiser, _, _| !visualiser.is_open()
create_exit_condition_visualiser_closed_two_dimensional_visualiser(is_open) ==
  ~is_open

\* the closure start() hands to the driver, applied to the driver's state
exit_condition(kind, selected_exit_condition, is_open, episode) ==
  IF kind = "no_visualiser"
  THEN create_exit_condition_episodes_simulated_no_visualiser(
         selected_exit_condition.count_of_episodes, episode)
  ELSE IF selected_exit_condition.name = "EpisodesSimulated"
  THEN create_exit_condition_episodes_simulated_two_dimensional_visualiser(
         selected_exit_condition.count_of_episodes, is_open, episode)
  ELSE create_exit_condition_visualiser_closed_two_dimensional_visualiser(is_open)

\* a headless driver that lets an episode run one step longer
starts_new_episode_one_step_later(kind, run_options, step, done) ==
  IF kind = "no_visualiser"
  THEN step > StepLimit + 1 \/ (run_options.reset_environment_on_done /\ done)
  ELSE run_options.reset_environment_on_done /\ done

\* a window driver that starts a new episode at every done, whatever the policy
starts_new_episode_window_on_any_done(kind, run_options, step, done) ==
  IF kind = "no_visualiser"
  THEN step > StepLimit \/ (run_options.reset_environment_on_done /\ done)
  ELSE done

\* the condition without the step clause, as in the window driver
starts_new_episode_on_done(kind, run_options, step, done) ==
  run_options.reset_environment_on_done /\ done

\* the condition of the `state = if ...` in the loop body, read after
\* `step += 1`: only run_with_no_visualiser has the step clause
starts_new_episode(kind, run_options, step, done) ==
  IF kind = "no_visualiser"
  THEN step > StepLimit \/ (run_options.reset_environment_on_done /\ done)
  ELSE run_options.reset_environment_on_done /\ done

\* a loop body that also writes the agent to its file after every step
loop_body_storing(kind, run_options, step, done) ==
  <<"agent.choose_action", "environment.step", "agent.process_reward", "store_agent">>

\* a loop body that resets the environment in every pass
loop_body_resetting_every_pass(kind, run_options, step, done) ==
  <<"agent.choose_action", "environment.step", "agent.process_reward",
    "environment.reset">>
  \o (IF run_options.reset_agent_on_done /\ done THEN <<"agent.reset">> ELSE << >>)
  \o (IF kind = "two_dimensional"
      THEN <<"visualiser.render_two_dimensional",
             "sleep_suggested_steps_per_second_or_30_fps">>
      ELSE << >>)

\* a loop body that renders before it resets
loop_body_rendering_before_reset(kind, run_options, step, done) ==
  <<"agent.choose_action", "environment.step", "agent.process_reward">>
  \o (IF kind = "two_dimensional"
      THEN <<"visualiser.render_two_dimensional">> ELSE << >>)
  \o (IF starts_new_episode(kind, run_options, step + 1, done)
      THEN <<"environment.reset">> ELSE << >>)
  \o (IF run_options.reset_agent_on_done /\ done THEN <<"agent.reset">> ELSE << >>)
  \o (IF kind = "two_dimensional"
      THEN <<"sleep_suggested_steps_per_second_or_30_fps">> ELSE << >>)

\* a loop body that resets the agent whenever it resets the environment
loop_body_agent_follows_environment(kind, run_options, step, done) ==
  <<"agent.choose_action", "environment.step", "agent.process_reward">>
  \o (IF starts_new_episode(kind, run_options, step + 1, done)
      THEN <<"environment.reset", "agent.reset">> ELSE << >>)
  \o (IF kind = "two_dimensional"
      THEN <<"visualiser.render_two_dimensional",
             "sleep_suggested_steps_per_second_or_30_fps">>
      ELSE << >>)

\* a loop body that resets before the agent has processed the reward
loop_body_resetting_first(kind, run_options, step, done) ==
  <<"agent.choose_action", "environment.step">>
  \o (IF starts_new_episode(kind, run_options, step + 1, done)
      THEN <<"environment.reset">> ELSE << >>)
  \o (IF run_options.reset_agent_on_done /\ done THEN <<"agent.reset">> ELSE << >>)
  \o <<"agent.process_reward">>
  \o (IF kind = "two_dimensional"
      THEN <<"visualiser.render_two_dimensional",
             "sleep_suggested_steps_per_second_or_30_fps">>
      ELSE << >>)

\* the calls of one pass through the loop body, in program order
loop_body(kind, run_options, step, done) ==
  <<"agent.choose_action", "environment.step", "agent.process_reward">>
  \o (IF starts_new_episode(kind, run_options, step + 1, done)
      THEN <<"environment.reset">> ELSE << >>)
  \o (IF run_options.reset_agent_on_done /\ done THEN <<"agent.reset">> ELSE << >>)
  \o (IF kind = "two_dimensional"
      THEN <<"visualiser.render_two_dimensional",
             "sleep_suggested_steps_per_second_or_30_fps">>
      ELSE << >>)

\* every call of the loop body returns a Result that is unwrapped, except
\* the sleep
Fallible(calls) ==
  {calls[i] : i \in 1..Len(calls)} \ {"sleep_suggested_steps_per_second_or_30_fps"}

(***************************************************************************)
(* Compatibility lists (availables.rs) and the interactive collection of    *)
(* the four selections and the run options (main.rs).                      *)
(***************************************************************************)
\* a table in which the mountain car does not list the input agent
supports_available_without_input(from, v, to) ==
  CASE to = "Environment"   -> <<"GymMountainCar", "CodeBulletAiLearnsToDrive">>
    [] to = "Visualiser"    -> <<"None", "PistonIn2d">>
    [] to = "ExitCondition" -> <<"EpisodesSimulated", "VisualiserClosed">>
    [] to = "Agent" ->
         IF v = "GymMountainCar" THEN <<"Random">>
         ELSE IF from = "Environment" THEN <<"Input", "Random">>
         ELSE <<"Random", "Input">>

\* AvailableSupportsAvailable::supports_available of variant v of category
\* `from` for category `to`: the vec! of the match arm of v in each of the
\* twelve impls
supports_available(from, v, to) ==
  CASE from = "Environment" /\ to = "Agent" ->
         (CASE v = "GymMountainCar" -> <<"Input", "Random">>
            [] v = "CodeBulletAiLearnsToDrive" -> <<"Input", "Random">>)
    [] from = "Environment" /\ to = "Visualiser" ->
         (CASE v = "GymMountainCar" -> <<"None", "PistonIn2d">>
            [] v = "CodeBulletAiLearnsToDrive" -> <<"None", "PistonIn2d">>)
    [] from = "Environment" /\ to = "ExitCondition" ->
         (CASE v = "GymMountainCar" -> <<"EpisodesSimulated", "VisualiserClosed">>
            [] v = "CodeBulletAiLearnsToDrive" -> <<"EpisodesSimulated", "VisualiserClosed">>)
    [] from = "Agent" /\ to = "Environment" ->
         (CASE v = "Random" -> <<"GymMountainCar", "CodeBulletAiLearnsToDrive">>
            [] v = "Input" -> <<"GymMountainCar", "CodeBulletAiLearnsToDrive">>)
    [] from = "Agent" /\ to = "Visualiser" ->
         (CASE v = "Random" -> <<"None", "PistonIn2d">>
            [] v = "Input" -> <<"None", "PistonIn2d">>)
    [] from = "Agent" /\ to = "ExitCondition" ->
         (CASE v = "Random" -> <<"EpisodesSimulated", "VisualiserClosed">>
            [] v = "Input" -> <<"EpisodesSimulated", "VisualiserClosed">>)
    [] from = "Visualiser" /\ to = "Environment" ->
         (CASE v = "None" -> <<"GymMountainCar", "CodeBulletAiLearnsToDrive">>
            [] v = "PistonIn2d" -> <<"GymMountainCar", "CodeBulletAiLearnsToDrive">>)
    [] from = "Visualiser" /\ to = "Agent" ->
         (CASE v = "None" -> <<"Random", "Input">>
            [] v = "PistonIn2d" -> <<"Random", "Input">>)
    [] from = "Visualiser" /\ to = "ExitCondition" ->
         (CASE v = "None" -> <<"EpisodesSimulated", "VisualiserClosed">>
            [] v = "PistonIn2d" -> <<"EpisodesSimulated", "VisualiserClosed">>)
    [] from = "ExitCondition" /\ to = "Environment" ->
         (CASE v = "EpisodesSimulated" -> <<"GymMountainCar", "CodeBulletAiLearnsToDrive">>
            [] v = "VisualiserClosed" -> <<"GymMountainCar", "CodeBulletAiLearnsToDrive">>)
    [] from = "ExitCondition" /\ to = "Agent" ->
         (CASE v = "EpisodesSimulated" -> <<"Random", "Input">>
            [] v = "VisualiserClosed" -> <<"Random", "Input">>)
    [] from = "ExitCondition" /\ to = "Visualiser" ->
         (CASE v = "EpisodesSimulated" -> <<"None", "PistonIn2d">>
            [] v = "VisualiserClosed" -> <<"None", "PistonIn2d">>)

\* Vec::contains
contains(vec, x) == \E i \in 1..Len(vec) : vec[i] = x

\* usize::MAX of a 64-bit target
UsizeMax ==
  <<"1","8","4","4","6","7","4","4","0","7","3","7","0","9","5","5","1","6","1","5">>

\* available_elements[index]: a panic when the index is not below the length
index_into(available_elements, index) ==
  IF Len(index) <= 2 /\ NumeralToNat(index) < Len(available_elements)
  THEN [ok |-> TRUE, available |-> available_elements[NumeralToNat(index) + 1]]
  ELSE SelectPanic("index out of bounds")

\* the HashMap filled by the prompts of the options: the trimmed answer, or
\* the default of the option when the answer is empty
RECURSIVE chosen_configuration(_, _, _)
chosen_configuration(configuration_options, answers, i) ==
  IF i = 0 THEN << >>
  ELSE LET configuration_option == configuration_options[i]
           answer_string == trim(answers[i])
       IN Insert(chosen_configuration(configuration_options, answers, i - 1),
                 configuration_option.name,
                 IF answer_string = <<>> THEN configuration_option.default
                 ELSE answer_string)

\* the second Vec of Iterator::partition
partition_unavailable(elements, predicate) ==
  LET kept == {i \in 1..Len(elements) : elements[i] \notin predicate}
  IN [k \in 1..Cardinality(kept) |->
        elements[CHOOSE i \in kept : Cardinality({j \in kept : j < i}) = k - 1]]

\* the first Vec of Iterator::partition: the elements the predicate holds
\* for, in their order; the predicate is given by the set it holds on
partition(elements, predicate) ==
  LET kept == {i \in 1..Len(elements) : elements[i] \in predicate}
  IN [k \in 1..Cardinality(kept) |->
        elements[CHOOSE i \in kept : Cardinality({j \in kept : j < i}) = k - 1]]

\* the closure given to and_then: the prompts for the options of the chosen
\* element, then Available::select
prompt_and_select(cat, available, answers) ==
  LET configuration_options == available_configurations(available)
  IN CHOOSE selection \in
       {select(cat, available, configuration) :
          configuration \in {chosen_configuration(configuration_options, answers,
                                                   Len(configuration_options))}} : TRUE

\* a select_interactively that goes on to read the choice when no element is
\* available
select_interactively_reading_on(cat, predicate, chosen_element_string, answers) ==
  LET available_elements == partition(values(cat), predicate)
      trimmed == trim(chosen_element_string)
      index == ParseUnsigned(trimmed, UsizeMax)
      chosen == IF index.ok THEN index_into(available_elements, index.value)
                ELSE from_str(cat, trimmed)
  IN IF ~chosen.ok
     THEN IF index.ok THEN chosen ELSE SelectPanic("Couldn't parse")
     ELSE CHOOSE result \in
            {IF selection.ok THEN selection ELSE SelectPanic(selection.error) :
               selection \in {prompt_and_select(cat, available, answers) :
                                available \in {chosen.available}}} : TRUE

\* select_interactively::<_, A, _>(predicate) reading chosen_element_string
\* and then one answer for each option of the chosen element; the unwrap at
\* its end panics on every Err
select_interactively(cat, predicate, chosen_element_string, answers) ==
  LET available_elements == partition(values(cat), predicate)
      trimmed == trim(chosen_element_string)
      index == ParseUnsigned(trimmed, UsizeMax)
      chosen == IF index.ok THEN index_into(available_elements, index.value)
                ELSE from_str(cat, trimmed)
  IN IF available_elements = << >>
     THEN SelectPanic("There are no elements with the previous selections!")
     ELSE IF ~chosen.ok
     THEN IF index.ok THEN chosen ELSE SelectPanic("Couldn't parse")
     ELSE CHOOSE result \in
            {IF selection.ok THEN selection ELSE SelectPanic(selection.error) :
               selection \in {prompt_and_select(cat, available, answers) :
                                available \in {chosen.available}}} : TRUE

\* prompt_yes_no
prompt_yes_no(answer_string, default) ==
  IF trim(answer_string) = <<>> THEN default
  ELSE starts_with(to_lowercase(trim(answer_string)), <<"y">>)

\* prompt_string
prompt_string(answer_string, default) ==
  IF trim(answer_string) = <<>> THEN default
  ELSE {trim(answer_string)}

\* a match of start() whose arms without a visualiser all run the driver
\* without visualiser
start_without_panic(selected_environment, selected_agent, selected_visualiser, selected_exit_condition) ==
  IF selected_visualiser.case = "SelectedVisualiser::None"
  THEN "run_with_no_visualiser"
  ELSE "run_with_two_dimensional_visualiser"

\* the match of start(): the function it calls, or the arm that panics
start(selected_environment, selected_agent, selected_visualiser, selected_exit_condition) ==
  IF selected_agent.case = "SelectedAgent::Random"
  THEN IF selected_visualiser.case = "SelectedVisualiser::None"
       THEN IF selected_exit_condition.case = "SelectedExitCondition::EpisodesSimulated"
            THEN "run_with_no_visualiser"
            ELSE "panicked"
       ELSE "run_with_two_dimensional_visualiser"
  ELSE IF selected_visualiser.case = "SelectedVisualiser::None"
       THEN "panicked"
       ELSE "run_with_two_dimensional_visualiser"

\* the create_* functions the arm taken by start() calls, in the order in
\* which Rust evaluates them: the arguments of the driver from left to right,
\* after the `let visualiser` of the arms of SelectedAgent::Input
start_creates(selected_environment, selected_agent, selected_visualiser, selected_exit_condition) ==
  LET run == start(selected_environment, selected_agent, selected_visualiser,
                   selected_exit_condition)
      create_environment ==
        IF selected_environment.case = "SelectedEnvironment::GymMountainCar"
        THEN "create_environment_gym_mountain_car"
        ELSE "create_environment_code_bullet_ai_learns_to_drive"
      create_exit_condition ==
        IF selected_exit_condition.case = "SelectedExitCondition::VisualiserClosed"
        THEN "create_exit_condition_visualiser_closed_two_dimensional_visualiser"
        ELSE IF run = "run_with_no_visualiser"
        THEN "create_exit_condition_episodes_simulated_no_visualiser"
        ELSE "create_exit_condition_episodes_simulated_two_dimensional_visualiser"
  IN IF run = "panicked" THEN << >>
     ELSE IF run = "run_with_no_visualiser"
     THEN <<create_environment, "create_agent_random", create_exit_condition>>
     ELSE IF selected_agent.case = "SelectedAgent::Random"
     THEN <<create_environment, "create_agent_random",
            "create_visualiser_piston_in_2d", create_exit_condition>>
     ELSE <<"create_visualiser_piston_in_2d", create_environment,
            "create_agent_input", create_exit_condition>>

(***************************************************************************)
(* State.                                                                  *)
(***************************************************************************)
VARIABLES
  fs_category,       \* from_str: the category whose FromStr is called
  fs_input,          \* from_str: the text given
  fs_edits,          \* from_str: characters retyped so far
  fs_result,         \* from_str: {} before the call, {what it returned} after
  sel_category,      \* select: the category of the variant
  sel_available,     \* select: the variant (self)
  sel_configuration, \* select: the configuration map given
  sel_result,        \* select: {} before the call, {what it returned} after
  sp_input,          \* split_config: the configuration string
  sp_map,            \* split_config: the map the string was written from
  sp_serialized,     \* split_config: whether the string was written from sp_map
  sp_result,         \* split_config: {} before the call, {the map returned} after
  pst_files,         \* load/store: the files that exist, path -> content
  pst_environment,   \* load/store: the state held by the environment
  pst_agent,         \* load/store: the state held by the agent
  pst_calls,         \* load/store: how many of the four helpers were called
  pst_result,        \* load/store: {} or {the last call and what it returned}
  drv_kind,          \* driver: "no_visualiser" or "two_dimensional"
  drv_exit_condition,\* driver: the selected exit condition
  drv_run_options,   \* driver: the RunOptions it was called with
  drv_pc,            \* driver: the statement it is at
  drv_episode,       \* driver: the local `episode`
  drv_step,          \* driver: the local `step`
  drv_is_open,       \* driver: what visualiser.is_open() returns
  drv_resets_in_loop,\* driver: environment.reset() calls made by the loop body
  drv_all_done,      \* driver: every environment.step() so far reported done
  drv_failed,        \* driver: the call whose Err was unwrapped, or "none"
  drv_phase,         \* driver: Initializing, Running, Draining or Terminated
  drv_last,          \* driver: the calls its last action made, and the done flag
  drv_drain,         \* driver: the calls made since the loop was left
  drv_state,         \* driver: the call the local `state` was returned by
  drv_args,          \* driver: the arguments of the calls its last action made
  drv_ahead,         \* driver: how many more evaluations of the exit condition
                     \*   and, with a visualiser, renders and sleeps than calls
                     \*   of environment.step were made so far
  int_pc,            \* interactive run: the prompt it is at, or how it ended
  int_selected,      \* interactive run: category -> {} or {the selection made}
  int_run_options,   \* interactive run: {} or {the RunOptions built}
  int_offered,       \* interactive run: category -> {} or {the list offered}
  int_asked,         \* interactive run: the categories asked for, in order
  int_created,       \* interactive run: the create_* calls start() made
  si_category,       \* select_interactively: the category A it is called for
  si_predicate,      \* select_interactively: the elements its predicate holds for
  si_line,           \* select_interactively: {} or {the line read as the choice}
  si_result,         \* select_interactively: {} or {what the call came to}
  bat_args,          \* command_line run: the arguments given
  bat_pc,            \* command_line run: where it is, or how it ended
  bat_selected,      \* command_line run: category -> {} or {the selection made}
  bat_run_options,   \* command_line run: {} or {the RunOptions built}
  bat_created        \* command_line run: the create_* calls start() made

fs_vars == <<fs_category, fs_input, fs_edits, fs_result>>

sel_vars == <<sel_category, sel_available, sel_configuration, sel_result>>

sp_vars == <<sp_input, sp_map, sp_serialized, sp_result>>

pst_vars == <<pst_files, pst_environment, pst_agent, pst_calls, pst_result>>

drv_vars == <<drv_kind, drv_exit_condition, drv_run_options, drv_pc, drv_episode,
              drv_step, drv_is_open, drv_resets_in_loop, drv_all_done, drv_failed,
              drv_phase, drv_last, drv_drain, drv_state, drv_args, drv_ahead>>

int_vars == <<int_pc, int_selected, int_run_options, int_offered, int_asked, int_created>>

si_vars == <<si_category, si_predicate, si_line, si_result>>

bat_vars == <<bat_args, bat_pc, bat_selected, bat_run_options, bat_created>>

vars == <<fs_vars, sel_vars, sp_vars, pst_vars, drv_vars, int_vars, si_vars, bat_vars>>

\* what each part of the model leaves alone
fs_others == <<sel_vars, sp_vars, pst_vars, drv_vars, int_vars, si_vars, bat_vars>>

sel_others == <<fs_vars, sp_vars, pst_vars, drv_vars, int_vars, si_vars, bat_vars>>

sp_others == <<fs_vars, sel_vars, pst_vars, drv_vars, int_vars, si_vars, bat_vars>>

pst_others == <<fs_vars, sel_vars, sp_vars, drv_vars, int_vars, si_vars, bat_vars>>

int_others == <<fs_vars, sel_vars, sp_vars, pst_vars, drv_vars, si_vars, bat_vars>>

si_others == <<fs_vars, sel_vars, sp_vars, pst_vars, drv_vars, int_vars, bat_vars>>

bat_others == <<fs_vars, sel_vars, sp_vars, pst_vars, drv_vars, int_vars, si_vars>>

(***************************************************************************)
(* Every specification below runs one part of the program; the variables   *)
(* of the other parts rest at these values.                                *)
(***************************************************************************)
EmptyMap == << >>

FsIdle ==
  /\ fs_category = "Environment"
  /\ fs_input = <<>>
  /\ fs_edits = 0
  /\ fs_result = {}

SelIdle ==
  /\ sel_category = "Environment"
  /\ sel_available = "GymMountainCar"
  /\ sel_configuration = EmptyMap
  /\ sel_result = {}

SpIdle ==
  /\ sp_input = <<>>
  /\ sp_map = EmptyMap
  /\ sp_serialized = FALSE
  /\ sp_result = {}

PstIdle ==
  /\ pst_files = EmptyMap
  /\ pst_environment = "state_a"
  /\ pst_agent = "state_a"
  /\ pst_calls = 0
  /\ pst_result = {}

IntIdle ==
  /\ int_pc = "idle"
  /\ int_selected = [cat \in Categories |-> {}]
  /\ int_run_options = {}
  /\ int_offered = [cat \in Categories |-> {}]
  /\ int_asked = << >>
  /\ int_created = << >>

SiIdle ==
  /\ si_category = "Environment"
  /\ si_predicate = {}
  /\ si_line = {}
  /\ si_result = {}

NoArgs ==
  [environment |-> {}, environment_configuration |-> {},
   agent |-> {}, agent_configuration |-> {},
   visualiser |-> {}, visualiser_configuration |-> {},
   exit_condition |-> {}, exit_condition_configuration |-> {},
   seed |-> {}, not_reset_environment_on_done |-> FALSE,
   reset_agent_on_done |-> FALSE,
   environment_load_path |-> {}, environment_store_path |-> {},
   agent_load_path |-> {}, agent_store_path |-> {}]

BatIdle ==
  /\ bat_args = NoArgs
  /\ bat_pc = "idle"
  /\ bat_selected = [cat \in Categories |-> {}]
  /\ bat_run_options = {}
  /\ bat_created = << >>

\* before the first action of the driver
NoCalls == [calls |-> << >>, done |-> FALSE]

NoArguments == << >>

NoneAhead == [exit_condition |-> 0, render |-> 0, sleep |-> 0]

DrvIdle ==
  /\ drv_kind = "no_visualiser"
  /\ drv_exit_condition = [name |-> "EpisodesSimulated", count_of_episodes |-> 0]
  /\ drv_run_options = [seed |-> {}, reset_environment_on_done |-> TRUE,
                        reset_agent_on_done |-> TRUE, environment_load_path |-> {},
                        environment_store_path |-> {}, agent_load_path |-> {},
                        agent_store_path |-> {}]
  /\ drv_pc = "idle"
  /\ drv_episode = 0
  /\ drv_step = 0
  /\ drv_is_open = FALSE
  /\ drv_resets_in_loop = 0
  /\ drv_all_done = TRUE
  /\ drv_failed = "none"
  /\ drv_phase = "Initializing"
  /\ drv_last = NoCalls
  /\ drv_drain = << >>
  /\ drv_state = "none"
  /\ drv_args = NoArguments
  /\ drv_ahead = NoneAhead

(***************************************************************************)
(* Alias resolution: a user types a name and the category parses it.       *)
(***************************************************************************)
NamesOf(v) == {nice_name(v), long_name(v), short_name(v)}

AllVariants == UNION {Variants(cat) : cat \in Categories}

AllNames == UNION {NamesOf(v) : v \in AllVariants}

\* the text starts as a name of any category, as written, in capitals or in
\* small letters, or as the empty text
FsInit ==
  /\ fs_category \in Categories
  /\ fs_input \in AllNames \cup {to_uppercase(n) : n \in AllNames}
                  \cup {to_lowercase(n) : n \in AllNames} \cup {<<>>}
  /\ fs_edits = 0
  /\ fs_result = {}

\* the user retypes one letter in the other case
FsToggleCase ==
  /\ fs_result = {}
  /\ fs_edits < MaxEdits
  /\ \E i \in 1..Len(fs_input) :
       /\ OtherCase(fs_input[i]) # fs_input[i]
       /\ fs_input' = [fs_input EXCEPT ![i] = OtherCase(fs_input[i])]
  /\ fs_edits' = fs_edits + 1
  /\ UNCHANGED <<fs_category, fs_result>>
  /\ UNCHANGED fs_others

\* the user mistypes: the last character is missing
FsDropLast ==
  /\ fs_result = {}
  /\ fs_edits < MaxEdits
  /\ Len(fs_input) > 0
  /\ fs_input' = SubSeq(fs_input, 1, Len(fs_input) - 1)
  /\ fs_edits' = fs_edits + 1
  /\ UNCHANGED <<fs_category, fs_result>>
  /\ UNCHANGED fs_others

\* the user mistypes: one character too many
FsAppend ==
  /\ fs_result = {}
  /\ fs_edits < MaxEdits
  /\ \E c \in {"d", "_", " "} : fs_input' = Append(fs_input, c)
  /\ fs_edits' = fs_edits + 1
  /\ UNCHANGED <<fs_category, fs_result>>
  /\ UNCHANGED fs_others

\* str::parse::<A>() for the category's Available type
FsParse ==
  /\ fs_result = {}
  /\ fs_result' = {from_str(fs_category, fs_input)}
  /\ UNCHANGED <<fs_category, fs_input, fs_edits>>
  /\ UNCHANGED fs_others

FsNext == FsToggleCase \/ FsDropLast \/ FsAppend \/ FsParse

InitFromStr ==
  FsInit /\ SelIdle /\ SpIdle /\ PstIdle /\ DrvIdle /\ IntIdle /\ SiIdle /\ BatIdle

SpecFromStr == InitFromStr /\ [][FsNext]_vars

(***************************************************************************)
(* C1: in every category, a text that equals one of a variant's three      *)
(* names up to letter case parses to exactly that variant, and a text that  *)
(* equals none of the category's names up to letter case yields the         *)
(* not-found error (naming the lowered text and the category), no variant.  *)
(***************************************************************************)
SameUpToCase(a, b) ==
  /\ Len(a) = Len(b)
  /\ \A i \in 1..Len(a) : a[i] = b[i] \/ a[i] = OtherCase(b[i])

C1_AliasResolution ==
  \A r \in fs_result :
    /\ \A v \in Variants(fs_category) :
         (\E n \in NamesOf(v) : SameUpToCase(fs_input, n))
           => r = [ok |-> TRUE, available |-> v]
    /\ (\A v \in Variants(fs_category) :
          \A n \in NamesOf(v) : ~SameUpToCase(fs_input, n))
         => /\ r.ok = FALSE
            /\ r.not_found = to_lowercase(fs_input)
            /\ r.searched = NotFoundIn(fs_category)

\* a short name typed partly in capitals has been resolved
C1_Witness ==
  \E r \in fs_result :
    /\ r.ok
    /\ fs_edits > 0
    /\ fs_input # short_name(r.available)
    /\ SameUpToCase(fs_input, short_name(r.available))
    /\ ~SameUpToCase(fs_input, long_name(r.available))

(***************************************************************************)
(* Resolver: a variant is resolved with a configuration map.               *)
(***************************************************************************)
OptionNames(v) ==
  {available_configurations(v)[i].name : i \in 1..Len(available_configurations(v))}

\* a key that no variant declares
seed_key == <<"s","e","e","d">>

\* the texts a user may give for an option of each declared type: well
\* formed, malformed, empty, too large, and pairs of the wrong length
TextsOfType(data_type) ==
  CASE data_type = "f64" ->
         { <<"0",".","0">>, <<"0">>, <<"-","1",".","5">>, <<"1","e","1">>, <<"1","0">>,
           <<".","5">>, <<>>, <<".">>, <<"a","b","c">>, <<"1",".","5","x">> }
    [] data_type = "bool" ->
         { <<"t","r","u","e">>, <<"f","a","l","s","e">>, <<"T","r","u","e">>,
           <<"1">>, <<>>, <<"y","e","s">> }
    [] data_type = "u128" ->
         { <<"2","0">>, <<"0">>, <<"+","7">>, <<"-","1">>, <<>>, <<"2","x">>,
           <<"0","0","7">>, U128Max,
           <<"3","4","0","2","8","2","3","6","6","9","2","0","9","3","8","4","6","3","4","6","3","3","7","4","6","0","7","4","3","1","7","6","8","2","1","1","4","5","6">> }
    [] data_type = "String" ->
         { <<"T","i","t","l","e">>, <<>>, <<"a",";","b">> }
    [] data_type = "(u32, u32)" ->
         { <<"(","6","4","0",","," ","4","8","0",")">>, <<"6","4","0",",","4","8","0">>,
           <<"("," ","1"," ",",","2"," ",")">>, <<"(","8","0","0",",","6","0","0",")">>,
           <<" ","2"," ",","," ","1"," ">>,
           <<"8","0","0">>, <<"(","1",",","2",",","3",")">>, <<"a","b","c">>,
           <<"(","1",",","b",")">>, <<>>,
           <<"(","4","2","9","4","9","6","7","2","9","5",",","0",")">>,
           <<"(","4","2","9","4","9","6","7","2","9","6",",","0",")">> }

\* the entries the model may put into the map given to variant v
OfferedEntries(v) ==
  {<<available_configurations(v)[i].name, text>> :
     i \in 1..Len(available_configurations(v)),
     text \in UNION {TextsOfType(t) : t \in {"f64", "bool", "u128", "String", "(u32, u32)"}}}

EntriesFor(v) ==
  {e \in OfferedEntries(v) :
     \E i \in 1..Len(available_configurations(v)) :
       /\ available_configurations(v)[i].name = e[1]
       /\ e[2] \in TextsOfType(available_configurations(v)[i].data_type)}
  \cup {<<seed_key, <<"1">> >>, <<seed_key, <<>> >>}

SelInit ==
  /\ sel_category \in Categories
  /\ sel_available \in Variants(sel_category)
  /\ sel_configuration = EmptyMap
  /\ sel_result = {}

\* the caller fills the map
SelInsert ==
  /\ sel_result = {}
  /\ \E e \in EntriesFor(sel_available) :
       /\ Cardinality(DOMAIN sel_configuration \cup {e[1]}) <= MaxConfigEntries
       /\ sel_configuration' = Insert(sel_configuration, e[1], e[2])
  /\ UNCHANGED <<sel_category, sel_available, sel_result>>
  /\ UNCHANGED sel_others

\* Available::select(self, configuration)
SelSelect ==
  /\ sel_result = {}
  /\ sel_result' = {select(sel_category, sel_available, sel_configuration)}
  /\ UNCHANGED <<sel_category, sel_available, sel_configuration>>
  /\ UNCHANGED sel_others

SelNext == SelInsert \/ SelSelect

InitSelect ==
  SelInit /\ FsIdle /\ SpIdle /\ PstIdle /\ DrvIdle /\ IntIdle /\ SiIdle /\ BatIdle

SpecSelect == InitSelect /\ [][SelNext]_vars

\* the struct field of a Selection that holds the option of the given name
ParameterOf(selected, name) ==
  CASE name = goal_velocity        -> selected.goal_velocity
    [] name = sensor_lines_visible -> selected.sensor_lines_visible
    [] name = track_visible        -> selected.track_visible
    [] name = window_title         -> selected.window_title
    [] name = window_dimension     -> selected.window_dimension
    [] name = count_of_episodes    -> selected.count_of_episodes

\* parsing a text according to a descriptor's declared type tag
ParseAs(data_type, text) ==
  CASE data_type = "f64"        -> ParseF64(text)
    [] data_type = "bool"       -> ParseBool(text)
    [] data_type = "u128"       -> ParseUnsigned(text, U128Max)
    [] data_type = "String"     -> [ok |-> TRUE, value |-> text]
    [] data_type = "(u32, u32)" -> tuple_u32_u32_from_str(text)

(***************************************************************************)
(* C4: for every variant of every category, select with an empty           *)
(* configuration map succeeds and every parameter of the Selection equals   *)
(* the value of parsing the default text of the descriptor of that name.    *)
(***************************************************************************)
C4_DefaultsApplied ==
  \A r \in sel_result :
    sel_configuration = EmptyMap =>
      /\ r.ok
      /\ \A i \in 1..Len(available_configurations(sel_available)) :
           LET d == available_configurations(sel_available)[i]
           IN /\ ParseAs(d.data_type, d.default).ok
              /\ ParameterOf(r.selected, d.name) = ParseAs(d.data_type, d.default).value

\* PistonIn2d, the variant with a pair-valued option, resolved from no entries
C4_Witness ==
  \E r \in sel_result :
    /\ sel_configuration = EmptyMap
    /\ sel_available = "PistonIn2d"
    /\ r.ok
    /\ r.selected.window_dimension = << <<"6","4","0">>, <<"4","8","0">> >>

(***************************************************************************)
(* C8: Variant -> Selection -> Variant is lossless: whenever v.select(c)    *)
(* returns a Selection s, s.corresponding_available() is v.                 *)
(***************************************************************************)
C8_RoundTrip ==
  \A r \in sel_result :
    r.ok => corresponding_available(r.selected) = sel_available

\* a Selection made from a non-empty map has been mapped back
C8_Witness ==
  \E r \in sel_result :
    /\ r.ok
    /\ sel_configuration # EmptyMap
    /\ sel_available = "CodeBulletAiLearnsToDrive"
    /\ corresponding_available(r.selected) = "CodeBulletAiLearnsToDrive"

(***************************************************************************)
(* C9: when the map supplies, for a declared option, a text that does not   *)
(* parse under the option's declared type, select returns the ParseError    *)
(* carrying the parse failure of the first such option in declared order    *)
(* and no Selection.                                                        *)
(***************************************************************************)
\* the text resolved for descriptor d: the supplied one, else the default
TextFor(d, configuration) ==
  IF d.name \in DOMAIN configuration THEN configuration[d.name] ELSE d.default

Malformed(v, configuration) ==
  {i \in 1..Len(available_configurations(v)) :
     LET d == available_configurations(v)[i]
     IN /\ d.name \in DOMAIN configuration
        /\ ~ParseAs(d.data_type, configuration[d.name]).ok}

FirstOf(indexes) == CHOOSE i \in indexes : \A j \in indexes : i <= j

C9_MalformedIsParseError ==
  \A r \in sel_result :
    Malformed(sel_available, sel_configuration) # {} =>
      LET d == available_configurations(sel_available)
                 [FirstOf(Malformed(sel_available, sel_configuration))]
      IN r = SelectParseError(ParseAs(d.data_type, TextFor(d, sel_configuration)).cause)

\* the same for the options whose type is not the pair of unsigned integers
C9_ScalarMalformedIsParseError ==
  \A r \in sel_result :
    LET scalar == {i \in Malformed(sel_available, sel_configuration) :
                     available_configurations(sel_available)[i].data_type # "(u32, u32)"}
    IN scalar # {} =>
         LET d == available_configurations(sel_available)[FirstOf(scalar)]
         IN r = SelectParseError(ParseAs(d.data_type, TextFor(d, sel_configuration)).cause)

(***************************************************************************)
(* C10: keys that are not names of the variant's declared options are       *)
(* ignored: select(c) has the same outcome as select(c restricted to the    *)
(* declared option names).                                                  *)
(***************************************************************************)
Restrict(map, keys) == [k \in DOMAIN map \cap keys |-> map[k]]

C10_UnknownKeysIgnored ==
  \A r \in sel_result :
    r = select(sel_category, sel_available,
               Restrict(sel_configuration, OptionNames(sel_available)))

\* a map with an undeclared key beside a declared one has been resolved
C10_Witness ==
  \E r \in sel_result :
    /\ seed_key \in DOMAIN sel_configuration
    /\ DOMAIN sel_configuration \cap OptionNames(sel_available) # {}
    /\ r.ok

(***************************************************************************)
(* Configuration strings: a text is typed, or written from a map, and      *)
(* split_config parses it.                                                 *)
(***************************************************************************)
\* the two texts the documentation of the grammar gives
ExampleShort == <<"a","=","1",";","b","=","x","\\",";","y">>

ExampleLong ==
  <<"k","=","v","a","l","\\",";","u","e",";","k","e","\\",";","y","=","v","a","\\","\\","l","u","e">>

\* what a user types, one character at a time
TypedChars == {"a", "=", ";", "\\"}

\* keys and values of the maps that are written out: plain, empty, and with
\* each of the characters of the grammar
MapKeys == { <<"a">>, <<>>, <<"k",";">>, <<"k","\\">>, <<"a","=","b">> }

MapValues == { <<"1">>, <<>>, <<"x",";","y">>, <<"v","\\">>, <<"p","=","q">> }

\* every order in which a HashMap may hand out its keys
Orders(map) ==
  LET n == Cardinality(DOMAIN map)
  IN {o \in [1..n -> DOMAIN map] : \A i, j \in 1..n : o[i] = o[j] => i = j}

SpInit ==
  /\ sp_input \in {<<>>, ExampleShort, ExampleLong}
  /\ sp_map = EmptyMap
  /\ sp_serialized = FALSE
  /\ sp_result = {}

\* one more character is typed
SpType ==
  /\ sp_result = {}
  /\ ~sp_serialized
  /\ sp_map = EmptyMap
  /\ Len(sp_input) < MaxInputLen
  /\ \E c \in TypedChars : sp_input' = Append(sp_input, c)
  /\ UNCHANGED <<sp_map, sp_serialized, sp_result>>
  /\ UNCHANGED sp_others

\* one more pair is put into the map that will be written out
SpInsert ==
  /\ sp_result = {}
  /\ ~sp_serialized
  /\ sp_input = <<>>
  /\ \E k \in MapKeys, v \in MapValues :
       /\ Cardinality(DOMAIN sp_map \cup {k}) <= MaxPairs
       /\ sp_map' = Insert(sp_map, k, v)
  /\ UNCHANGED <<sp_input, sp_serialized, sp_result>>
  /\ UNCHANGED sp_others

\* the map is written as a configuration string
SpSerialize ==
  /\ sp_result = {}
  /\ ~sp_serialized
  /\ sp_input = <<>>
  /\ \E order \in Orders(sp_map) : sp_input' = Serialize(sp_map, order)
  /\ sp_serialized' = TRUE
  /\ UNCHANGED <<sp_map, sp_result>>
  /\ UNCHANGED sp_others

\* split_config(configuration_string)
SpSplit ==
  /\ sp_result = {}
  /\ sp_result' = {split_config(sp_input)}
  /\ UNCHANGED <<sp_input, sp_map, sp_serialized>>
  /\ UNCHANGED sp_others

SpNext == SpType \/ SpInsert \/ SpSerialize \/ SpSplit

InitSplit ==
  SpInit /\ FsIdle /\ SelIdle /\ PstIdle /\ DrvIdle /\ IntIdle /\ SiIdle /\ BatIdle

SpecSplit == InitSplit /\ [][SpNext]_vars

(***************************************************************************)
(* C5: split_config parses  a=1;b=x\;y  to {a -> 1, b -> x;y}  and          *)
(* k=val\;ue;ke\;y=va\\lue  to {k -> val;ue, ke;y -> va\lue}.               *)
(***************************************************************************)
C5_DocumentedExamples ==
  \A r \in sp_result :
    /\ sp_input = ExampleShort =>
         r = Insert(Insert(EmptyMap, <<"a">>, <<"1">>), <<"b">>, <<"x",";","y">>)
    /\ sp_input = ExampleLong =>
         r = Insert(Insert(EmptyMap, <<"k">>, <<"v","a","l",";","u","e">>),
                    <<"k","e",";","y">>, <<"v","a","\\","l","u","e">>)

\* the longer example has been parsed into two pairs
C5_Witness ==
  \E r \in sp_result :
    /\ sp_input = ExampleLong
    /\ Cardinality(DOMAIN r) = 2

(***************************************************************************)
(* C6: round trip of the grammar.  As stated: for any configuration map     *)
(* m, split_config(serialize(m)) = m, where serialize writes key=value      *)
(* joined by ';' with a backslash before every ';' and '\'.                 *)
(***************************************************************************)
C6_RoundTripAnyMap ==
  \A r \in sp_result : sp_serialized => r = sp_map

HasChar(text, c) == \E i \in 1..Len(text) : text[i] = c

\* C6 as amended: the round trip holds for every map none of whose keys
\* contains '=' (the values may contain ';', '\' and '=')
C6_RoundTripKeysWithoutEquals ==
  \A r \in sp_result :
    (sp_serialized /\ \A k \in DOMAIN sp_map : ~HasChar(k, "="))
      => r = sp_map

\* a map with ';' and '\' in a key and in a value came back from its text
C6_Witness ==
  \E r \in sp_result :
    /\ sp_serialized
    /\ r = sp_map
    /\ \E k \in DOMAIN sp_map :
         /\ HasChar(k, ";") \/ HasChar(k, "\\")
         /\ HasChar(sp_map[k], ";") \/ HasChar(sp_map[k], "\\")
    /\ Cardinality(DOMAIN sp_map) = 2

(***************************************************************************)
(* Persistence: the four load/store helpers called with any path.          *)
(***************************************************************************)
\* paths with each known suffix, with an unknown one, with the suffix
\* letters but no dot, with the suffix in capitals, with a suffix after the
\* known one, and the empty path
SamplePaths ==
  { <<"e",".","j","s","o","n">>, <<"a",".","r","o","n">>, <<"s",".","b","i","n">>,
    <<"x",".","u","n","k","n","o","w","n">>, <<"j","s","o","n">>,
    <<"e",".","J","S","O","N">>, <<"e",".","b","i","n",".","b","a","k">>, <<>> }

\* the states an environment or an agent can be stored in
SampleData == {"state_a", "state_b"}

\* the files that exist before the program starts
InitialFiles ==
  Insert(Insert(EmptyMap, <<"e",".","j","s","o","n">>,
                [format |-> "json", data |-> "state_b"]),
         <<"x",".","u","n","k","n","o","w","n">>,
         [format |-> "bin", data |-> "state_b"])

PstInit ==
  /\ pst_files \in {EmptyMap, InitialFiles}
  /\ pst_environment \in SampleData
  /\ pst_agent = "state_a"
  /\ pst_calls = 0
  /\ pst_result = {}

PstCall(op, outcome) ==
  /\ pst_calls' = pst_calls + 1
  /\ pst_result' = {[op |-> op, error |-> outcome.error, path |-> outcome.path,
                     touched |-> outcome.touched]}
  /\ pst_files' = outcome.files
  /\ UNCHANGED pst_others

PstLoadEnvironment ==
  /\ pst_calls < MaxCalls
  /\ \E path \in SamplePaths, fault \in Faults :
       LET outcome == load_environment(path, pst_files, pst_environment, fault)
       IN /\ PstCall("load_environment", outcome)
          /\ pst_environment' = outcome.data
          /\ UNCHANGED pst_agent

PstLoadAgent ==
  /\ pst_calls < MaxCalls
  /\ \E path \in SamplePaths, fault \in Faults :
       LET outcome == load_agent(path, pst_files, pst_agent, fault)
       IN /\ PstCall("load_agent", outcome)
          /\ pst_agent' = outcome.data
          /\ UNCHANGED pst_environment

PstStoreEnvironment ==
  /\ pst_calls < MaxCalls
  /\ \E path \in SamplePaths, fault \in Faults \ {"component"} :
       LET outcome == store_environment(path, pst_files, pst_environment, fault)
       IN /\ PstCall("store_environment", outcome)
          /\ UNCHANGED <<pst_environment, pst_agent>>

PstStoreAgent ==
  /\ pst_calls < MaxCalls
  /\ \E path \in SamplePaths, fault \in Faults \ {"component"} :
       LET outcome == store_agent(path, pst_files, pst_agent, fault)
       IN /\ PstCall("store_agent", outcome)
          /\ UNCHANGED <<pst_environment, pst_agent>>

PstNext == PstLoadEnvironment \/ PstLoadAgent \/ PstStoreEnvironment \/ PstStoreAgent

InitPersist ==
  PstInit /\ FsIdle /\ SelIdle /\ SpIdle /\ DrvIdle /\ IntIdle /\ SiIdle /\ BatIdle

SpecPersist == InitPersist /\ [][PstNext]_vars

(***************************************************************************)
(* C7: for every path whose name ends with none of .json, .ron, .bin, each  *)
(* of load_environment, load_agent, store_environment and store_agent fails *)
(* with UnknownFormat carrying the full path, opens or creates no file, and *)
(* leaves the environment's and the agent's state (and the files) as they   *)
(* were.                                                                    *)
(***************************************************************************)
KnownSuffix(path) ==
  \E suffix \in { <<".","j","s","o","n">>, <<".","r","o","n">>, <<".","b","i","n">> } :
    /\ Len(path) >= Len(suffix)
    /\ \A i \in 1..Len(suffix) : path[Len(path) - Len(suffix) + i] = suffix[i]

C7_UnknownSuffixRejected ==
  [][ pst_calls' = pst_calls + 1 =>
        \A r \in pst_result' :
          ~KnownSuffix(r.path) =>
            /\ r.error = "UnknownFormat"
            /\ r.touched = {}
            /\ pst_files' = pst_files
            /\ pst_environment' = pst_environment
            /\ pst_agent' = pst_agent ]_vars

\* a second call, a store to x.unknown while a file of that name exists,
\* has been refused
C7_Witness ==
  \E r \in pst_result :
    /\ r.op = "store_environment"
    /\ r.path = <<"x",".","u","n","k","n","o","w","n">>
    /\ r.error = "UnknownFormat"
    /\ pst_calls = 2
    /\ r.path \in DOMAIN pst_files

(***************************************************************************)
(* The drivers: run_with_no_visualiser and                                  *)
(* run_with_two_dimensional_visualiser from their first statement to their  *)
(* return, or to the panic of an unwrap.                                    *)
(***************************************************************************)
None == {}
Some(x) == {x}

SampleExitConditions(kind) ==
  {[name |-> "EpisodesSimulated", count_of_episodes |-> n] : n \in 0..MaxEpisodes}
  \cup (IF kind = "two_dimensional"
        THEN {[name |-> "VisualiserClosed", count_of_episodes |-> 0]} ELSE {})

\* the run options tried: every seed and pair of flags without files, and
\* every choice of the four paths with the flags as the command line leaves
\* them by default
SampleRunOptions ==
  [seed : {None, Some(7)},
   reset_environment_on_done : BOOLEAN,
   reset_agent_on_done : BOOLEAN,
   environment_load_path : {None},
   environment_store_path : {None},
   agent_load_path : {None},
   agent_store_path : {None}]
  \cup
  [seed : {Some(7)},
   reset_environment_on_done : {TRUE},
   reset_agent_on_done : {FALSE},
   environment_load_path : {None, Some(<<"e",".","j","s","o","n">>)},
   environment_store_path : {None, Some(<<"s",".","b","i","n">>)},
   agent_load_path : {None, Some(<<"e",".","j","s","o","n">>)},
   agent_store_path : {None, Some(<<"a",".","r","o","n">>)}]

DrvInit ==
  /\ drv_kind \in {"no_visualiser", "two_dimensional"}
  /\ drv_exit_condition \in SampleExitConditions(drv_kind)
  /\ drv_run_options \in SampleRunOptions
  /\ drv_pc = "init_environment"
  /\ drv_episode = 0
  /\ drv_step = 0
  /\ drv_is_open = (drv_kind = "two_dimensional")
  /\ drv_resets_in_loop = 0
  /\ drv_all_done = TRUE
  /\ drv_failed = "none"
  /\ drv_phase = "Initializing"
  /\ drv_last = NoCalls
  /\ drv_drain = << >>
  /\ drv_state = "none"
  /\ drv_args = NoArguments
  /\ drv_ahead = NoneAhead
  /\ pst_files = InitialFiles
  /\ pst_environment = "state_a"
  /\ pst_agent = "state_a"
  /\ pst_calls = 0
  /\ pst_result = {}

\* an Err that is noted and passed over: the driver tries again where it is
RetryAfterError(call) ==
  /\ drv_pc' = drv_pc
  /\ drv_failed' = call
  /\ UNCHANGED <<drv_episode, drv_step, drv_state>>

\* an unwrap of an Err: the process ends where it is, the locals are gone
Panic(call) ==
  /\ drv_pc' = "panicked"
  /\ drv_failed' = call
  /\ drv_episode' = 0
  /\ drv_step' = 0
  /\ drv_state' = "none"

DrvFrame == <<drv_kind, drv_exit_condition, drv_is_open, drv_resets_in_loop, drv_all_done>>
DrvCounters == <<drv_episode, drv_step>>
PstMeta == <<pst_calls, pst_result>>

\* the calls an action made, and the done flag of the step among them
Count(calls, call) == Cardinality({i \in 1..Len(calls) : calls[i] = call})

\* the same with the arguments given to some of the calls
MadeWith(calls, done, args) ==
  /\ drv_last' = [calls |-> calls, done |-> done]
  /\ drv_args' = [call \in RangeOf(calls) \cap DOMAIN args |-> args[call]]
  /\ drv_ahead' =
       LET steps == Count(calls, "environment.step")
       IN [exit_condition |->
             drv_ahead.exit_condition + Count(calls, "exit_condition") - steps,
           render |->
             IF drv_kind = "two_dimensional"
             THEN drv_ahead.render
                    + Count(calls, "visualiser.render_two_dimensional") - steps
             ELSE 0,
           sleep |->
             IF drv_kind = "two_dimensional"
             THEN drv_ahead.sleep
                    + Count(calls, "sleep_suggested_steps_per_second_or_30_fps") - steps
             ELSE 0]

Made(calls, done) == MadeWith(calls, done, NoArguments)

\* the calls up to and including the one that failed
UpTo(calls, failed) ==
  SubSeq(calls, 1, CHOOSE i \in 1..Len(calls) :
                     calls[i] = failed /\ \A j \in 1..(i - 1) : calls[j] # failed)

\* runs.rs 48-54 / 128-134: the path is moved out of run_options by the
\* `if let`; the seed is cloned
DrvInitEnvironment ==
  /\ drv_pc = "init_environment"
  /\ LET next_pc == IF drv_kind = "two_dimensional" THEN "first_render" ELSE "init_agent"
     IN IF drv_run_options.environment_load_path # None
        THEN \E path \in drv_run_options.environment_load_path, fault \in Faults :
               LET outcome == load_environment(path, pst_files, pst_environment, fault)
               IN /\ drv_run_options' = [drv_run_options EXCEPT !.environment_load_path = None]
                  /\ pst_environment' = outcome.data
                  /\ IF outcome.error = "none"
                     THEN /\ drv_pc' = next_pc
                          /\ drv_state' = "environment.state"
                          /\ MadeWith(<<"load_environment", "environment.state">>, FALSE,
                                      "load_environment" :> path)
                          /\ UNCHANGED <<drv_failed, DrvCounters>>
                     ELSE /\ Panic("load_environment")
                          /\ MadeWith(<<"load_environment">>, FALSE, "load_environment" :> path)
        ELSE \E failed \in {"none", "environment.reseed", "environment.reset"} :
               /\ UNCHANGED <<drv_run_options, pst_environment>>
               /\ IF failed = "none"
                  THEN /\ drv_pc' = next_pc
                       /\ drv_state' = "environment.reset"
                       /\ MadeWith(<<"environment.reseed", "environment.reset">>, FALSE,
                                   "environment.reseed" :> drv_run_options.seed)
                       /\ UNCHANGED <<drv_failed, DrvCounters>>
                  ELSE /\ Panic(failed)
                       /\ MadeWith(UpTo(<<"environment.reseed", "environment.reset">>, failed),
                                   FALSE, "environment.reseed" :> drv_run_options.seed)
  /\ UNCHANGED <<DrvFrame, drv_phase, drv_drain, pst_files, pst_agent, PstMeta,
                 fs_vars, sel_vars, sp_vars, int_vars,
                 si_vars, bat_vars>>

\* runs.rs 136
DrvFirstRender ==
  /\ drv_pc = "first_render"
  /\ \E failed \in {"none", "visualiser.render_two_dimensional"} :
       IF failed = "none"
       THEN drv_pc' = "init_agent" /\ UNCHANGED <<drv_failed, DrvCounters, drv_state>>
       ELSE Panic(failed)
  /\ Made(<<"visualiser.render_two_dimensional">>, FALSE)
  /\ UNCHANGED <<DrvFrame, drv_phase, drv_drain, drv_run_options, pst_vars,
                 fs_vars, sel_vars, sp_vars, int_vars,
                 si_vars, bat_vars>>

\* an initialisation of the agent that reseeds and resets it whether or not
\* a load path was given
DrvInitAgentReseeding ==
  /\ drv_pc = "init_agent"
  /\ drv_pc' = "loop"
  /\ drv_run_options' = [drv_run_options EXCEPT !.seed = None, !.agent_load_path = None]
  /\ MadeWith(<<"agent.reseed", "agent.reset">>, FALSE,
              "agent.reseed" :> drv_run_options.seed)
  /\ UNCHANGED <<drv_failed, DrvCounters, drv_state>>
  /\ UNCHANGED <<DrvFrame, drv_phase, drv_drain, pst_vars,
                 fs_vars, sel_vars, sp_vars, int_vars,
                 si_vars, bat_vars>>

\* runs.rs 56-64 / 138-146: the path or the seed is moved out of run_options
DrvInitAgent ==
  /\ drv_pc = "init_agent"
  /\ IF drv_run_options.agent_load_path # None
     THEN \E path \in drv_run_options.agent_load_path, fault \in Faults :
            LET outcome == load_agent(path, pst_files, pst_agent, fault)
            IN /\ drv_run_options' = [drv_run_options EXCEPT !.agent_load_path = None]
               /\ pst_agent' = outcome.data
               /\ MadeWith(<<"load_agent">>, FALSE, "load_agent" :> path)
               /\ IF outcome.error = "none"
                  THEN drv_pc' = "loop" /\ UNCHANGED <<drv_failed, DrvCounters, drv_state>>
                  ELSE Panic("load_agent")
     ELSE \E failed \in {"none", "agent.reseed", "agent.reset"} :
            /\ drv_run_options' = [drv_run_options EXCEPT !.seed = None]
            /\ UNCHANGED pst_agent
            /\ IF failed = "none"
               THEN /\ drv_pc' = "loop"
                    /\ MadeWith(<<"agent.reseed", "agent.reset">>, FALSE,
                                "agent.reseed" :> drv_run_options.seed)
                    /\ UNCHANGED <<drv_failed, DrvCounters, drv_state>>
               ELSE /\ Panic(failed)
                    /\ MadeWith(UpTo(<<"agent.reseed", "agent.reset">>, failed), FALSE,
                                "agent.reseed" :> drv_run_options.seed)
  /\ UNCHANGED <<DrvFrame, drv_phase, drv_drain, pst_files, pst_environment, PstMeta,
                 fs_vars, sel_vars, sp_vars, int_vars,
                 si_vars, bat_vars>>

ExitNow == exit_condition(drv_kind, drv_exit_condition, drv_is_open, drv_episode)

\* a loop that evaluates its condition again before it is left
DrvLeaveLoopPollingTwice ==
  /\ drv_pc = "loop"
  /\ ExitNow
  /\ drv_pc' = "store_agent"
  /\ drv_phase' = "Draining"
  /\ Made(<<"exit_condition", "exit_condition">>, FALSE)
  /\ UNCHANGED <<DrvFrame, DrvCounters, drv_failed, drv_state, drv_drain, drv_run_options,
                 pst_vars, fs_vars, sel_vars, sp_vars, int_vars,
                 si_vars, bat_vars>>

\* runs.rs 66 / 148: the condition is true, the loop is left
DrvLeaveLoop ==
  /\ drv_pc = "loop"
  /\ ExitNow
  /\ drv_pc' = "store_agent"
  /\ drv_phase' = "Draining"
  /\ Made(<<"exit_condition">>, FALSE)
  /\ UNCHANGED <<DrvFrame, DrvCounters, drv_failed, drv_state, drv_drain, drv_run_options,
                 pst_vars, fs_vars, sel_vars, sp_vars, int_vars,
                 si_vars, bat_vars>>

\* runs.rs 66-86 / 148-173: the condition is false, one pass through the
\* body.  The window driver has no bound on step and episode of its own;
\* the model stops it at MaxSteps steps and MaxEpisodes + 1 episodes.
DrvIterate ==
  /\ drv_pc = "loop"
  /\ ~ExitNow
  /\ drv_kind = "two_dimensional" => drv_step < MaxSteps /\ drv_episode <= MaxEpisodes
  /\ drv_phase' = "Running"
  /\ \E done \in BOOLEAN :
       LET calls == loop_body(drv_kind, drv_run_options, drv_step, done)
           args == "agent.choose_action" :> <<drv_state>>
                   @@ "environment.step" :> <<"action">>
                   @@ "agent.process_reward" :> <<drv_state, "new_state", "reward", done>>
       IN \E failed \in {"none"} \cup Fallible(calls) :
            IF failed = "none"
            THEN /\ drv_pc' = "loop"
                 /\ drv_failed' = "none"
                 /\ drv_all_done' = (drv_all_done /\ done)
                 /\ MadeWith(<<"exit_condition">> \o calls, done, args)
                 /\ IF starts_new_episode(drv_kind, drv_run_options, drv_step + 1, done)
                    THEN /\ drv_step' = 0
                         /\ drv_episode' = drv_episode + 1
                         /\ drv_resets_in_loop' = drv_resets_in_loop + 1
                         /\ drv_state' = "environment.reset"
                    ELSE /\ drv_step' = drv_step + 1
                         /\ drv_state' = "new_state"
                         /\ UNCHANGED <<drv_episode, drv_resets_in_loop>>
            ELSE /\ Panic(failed)
                 /\ MadeWith(<<"exit_condition">> \o UpTo(calls, failed),
                             done /\ failed \notin {"agent.choose_action", "environment.step"},
                             args)
                 /\ UNCHANGED <<drv_all_done, drv_resets_in_loop>>
  /\ UNCHANGED <<drv_kind, drv_exit_condition, drv_is_open, drv_drain, drv_run_options,
                 pst_vars, fs_vars, sel_vars, sp_vars, int_vars,
                 si_vars, bat_vars>>

\* the user closes the window of the visualiser
DrvWindowClosed ==
  /\ drv_kind = "two_dimensional"
  /\ drv_pc \notin {"terminated", "panicked"}
  /\ drv_is_open
  /\ drv_is_open' = FALSE
  /\ UNCHANGED <<drv_kind, drv_exit_condition, drv_resets_in_loop, drv_all_done,
                 DrvCounters, drv_pc, drv_failed, drv_phase, drv_last, drv_drain,
                 drv_state, drv_args, drv_ahead, drv_run_options, pst_vars,
                 fs_vars, sel_vars, sp_vars, int_vars,
                 si_vars, bat_vars>>

\* runs.rs 88-90 / 175-177
DrvStoreAgent ==
  /\ drv_pc = "store_agent"
  /\ IF drv_run_options.agent_store_path # None
     THEN \E path \in drv_run_options.agent_store_path, fault \in Faults \ {"component"} :
            LET outcome == store_agent(path, pst_files, pst_agent, fault)
            IN /\ pst_files' = outcome.files
               /\ Made(<<"store_agent">>, FALSE)
               /\ drv_drain' = Append(drv_drain, "store_agent")
               /\ IF outcome.error = "none"
                  THEN /\ drv_pc' = "store_environment"
                       /\ UNCHANGED <<drv_failed, DrvCounters, drv_state>>
                  ELSE Panic("store_agent")
     ELSE /\ drv_pc' = "store_environment"
          /\ Made(<< >>, FALSE)
          /\ UNCHANGED <<drv_failed, DrvCounters, drv_state, drv_drain, pst_files>>
  /\ UNCHANGED <<DrvFrame, drv_phase, drv_run_options, pst_environment, pst_agent, PstMeta,
                 fs_vars, sel_vars, sp_vars, int_vars,
                 si_vars, bat_vars>>

\* runs.rs 92-94 / 179-181
DrvStoreEnvironment ==
  /\ drv_pc = "store_environment"
  /\ IF drv_run_options.environment_store_path # None
     THEN \E path \in drv_run_options.environment_store_path, fault \in Faults \ {"component"} :
            LET outcome == store_environment(path, pst_files, pst_environment, fault)
            IN /\ pst_files' = outcome.files
               /\ Made(<<"store_environment">>, FALSE)
               /\ drv_drain' = Append(drv_drain, "store_environment")
               /\ IF outcome.error = "none"
                  THEN /\ drv_pc' = "close_agent"
                       /\ UNCHANGED <<drv_failed, DrvCounters, drv_state>>
                  ELSE Panic("store_environment")
     ELSE /\ drv_pc' = "close_agent"
          /\ Made(<< >>, FALSE)
          /\ UNCHANGED <<drv_failed, DrvCounters, drv_state, drv_drain, pst_files>>
  /\ UNCHANGED <<DrvFrame, drv_phase, drv_run_options, pst_environment, pst_agent, PstMeta,
                 fs_vars, sel_vars, sp_vars, int_vars,
                 si_vars, bat_vars>>

\* a close that is passed over
DrvCloseSkipped(call, next_pc) ==
  /\ drv_pc' = next_pc
  /\ drv_phase' = IF next_pc = "terminated" THEN "Terminated" ELSE drv_phase
  /\ Made(<< >>, FALSE)
  /\ UNCHANGED <<drv_failed, DrvCounters, drv_state, drv_drain>>
  /\ UNCHANGED <<DrvFrame, drv_run_options, pst_vars, fs_vars, sel_vars, sp_vars, int_vars,
                 si_vars, bat_vars>>

\* component.close().unwrap()
DrvClose(call, next_pc) ==
  /\ \E failed \in {"none", call} :
       IF failed = "none"
       THEN /\ drv_pc' = next_pc
            /\ drv_phase' = IF next_pc = "terminated" THEN "Terminated" ELSE drv_phase
            /\ UNCHANGED <<drv_failed, DrvCounters, drv_state>>
       ELSE Panic(failed) /\ UNCHANGED drv_phase
  /\ Made(<<call>>, FALSE)
  /\ drv_drain' = Append(drv_drain, call)
  /\ UNCHANGED <<DrvFrame, drv_run_options, pst_vars, fs_vars, sel_vars, sp_vars, int_vars,
                 si_vars, bat_vars>>

\* runs.rs 96 / 183
DrvCloseAgent ==
  /\ drv_pc = "close_agent"
  /\ DrvClose("agent.close", "close_environment")

\* runs.rs 97 / 184
DrvCloseEnvironment ==
  /\ drv_pc = "close_environment"
  /\ DrvClose("environment.close",
              IF drv_kind = "two_dimensional" THEN "close_visualiser" ELSE "terminated")

\* runs.rs 185
DrvCloseVisualiser ==
  /\ drv_pc = "close_visualiser"
  /\ DrvClose("visualiser.close", "terminated")

DrvNext ==
  \/ DrvInitEnvironment \/ DrvFirstRender \/ DrvInitAgent
  \/ DrvLeaveLoop \/ DrvIterate \/ DrvWindowClosed
  \/ DrvStoreAgent \/ DrvStoreEnvironment
  \/ DrvCloseAgent \/ DrvCloseEnvironment \/ DrvCloseVisualiser

InitDriver ==
  DrvInit /\ FsIdle /\ SelIdle /\ SpIdle /\ IntIdle /\ SiIdle /\ BatIdle

SpecDriver == InitDriver /\ [][DrvNext]_vars

(***************************************************************************)
(* C3: for every N >= 0, a driver run whose exit condition is true exactly  *)
(* when episode >= N, with reset_environment_on_done set and an environment *)
(* that reports done at every step, resets the environment exactly N times  *)
(* inside the loop and then leaves the loop.  (For the window driver the    *)
(* exit condition is that one as long as the window is open.)               *)
(***************************************************************************)
C3_Case ==
  /\ drv_exit_condition.name = "EpisodesSimulated"
  /\ drv_run_options.reset_environment_on_done
  /\ drv_all_done
  /\ drv_kind = "two_dimensional" => drv_is_open

C3_ExactlyNResets ==
  C3_Case =>
    /\ drv_pc = "loop" =>
         /\ drv_resets_in_loop <= drv_exit_condition.count_of_episodes
         /\ drv_resets_in_loop = drv_exit_condition.count_of_episodes => ExitNow
         /\ drv_resets_in_loop < drv_exit_condition.count_of_episodes => ~ExitNow
    /\ drv_pc \in {"store_agent", "store_environment", "close_agent",
                   "close_environment", "close_visualiser", "terminated"} =>
         drv_resets_in_loop = drv_exit_condition.count_of_episodes

\* a run of two episodes ended by the second reset
C3_Witness ==
  /\ C3_Case
  /\ drv_pc = "terminated"
  /\ drv_exit_condition.count_of_episodes = 2
  /\ drv_resets_in_loop = 2

(***************************************************************************)
(* The interactive run: start_interactively from its first prompt to the    *)
(* call made by start(), or to a panic.                                     *)
(***************************************************************************)
\* what is typed at "Your choice:": an index, an index between blanks, an
\* index out of range, a text that is no name, and the short names of the
\* category
SampleChoices(cat) ==
  { <<"0">>, <<" ","1"," ">>, <<"2">>, <<"x">> }
  \cup {short_name(v) : v \in Variants(cat)}

\* what is typed at "Your answer:": nothing, or a text that is a value of
\* some of the option types and no value of the others
SampleAnswers ==
  { <<>>, <<"2">>, <<"f","a","l","s","e">>,
    <<"(","8","0","0",","," ","6","0","0",")">> }

\* no element has more than two options; answers beyond the options of the
\* chosen element are not read
OptionSlots == 1..2

NoSelection == [cat \in Categories |-> {}]

IntInit ==
  /\ int_pc = "select_environment"
  /\ int_selected = NoSelection
  /\ int_run_options = {}
  /\ int_offered = NoSelection
  /\ int_asked = << >>
  /\ int_created = << >>

\* the Available of the selection made for a category
Chosen(cat) == corresponding_available(CHOOSE s \in int_selected[cat] : TRUE)

\* the prompt at which each category is selected, and the one that follows
\* it: Environment, Visualiser, Agent, ExitCondition, then the run options
PromptOf(cat) ==
  CASE cat = "Environment"   -> "select_environment"
    [] cat = "Visualiser"    -> "select_visualiser"
    [] cat = "Agent"         -> "select_agent"
    [] cat = "ExitCondition" -> "select_exit_condition"

PromptAfter(cat) ==
  CASE cat = "Environment"   -> "select_visualiser"
    [] cat = "Visualiser"    -> "select_agent"
    [] cat = "Agent"         -> "select_exit_condition"
    [] cat = "ExitCondition" -> "run_options"

\* the closure given to each call, as the set of elements it holds for
\* (main.rs 491, 502-504, 513-516, 522-528)
predicate_for(cat) ==
  CASE cat = "Environment" -> Variants("Environment")
    [] cat = "Visualiser" ->
         LET selected_environment_supports_visualiser ==
               supports_available("Environment", Chosen("Environment"), "Visualiser")
         IN {available \in Variants("Visualiser") :
               contains(selected_environment_supports_visualiser, available)}
    [] cat = "Agent" ->
         LET selected_environment_supports_agent ==
               supports_available("Environment", Chosen("Environment"), "Agent")
             selected_visualiser_supports_agent ==
               supports_available("Visualiser", Chosen("Visualiser"), "Agent")
         IN {available \in Variants("Agent") :
               /\ contains(selected_environment_supports_agent, available)
               /\ contains(selected_visualiser_supports_agent, available)}
    [] cat = "ExitCondition" ->
         LET selected_environment_supports_exit_condition ==
               supports_available("Environment", Chosen("Environment"), "ExitCondition")
             selected_visualiser_supports_exit_condition ==
               supports_available("Visualiser", Chosen("Visualiser"), "ExitCondition")
             selected_agent_supports_exit_condition ==
               supports_available("Agent", Chosen("Agent"), "ExitCondition")
         IN {available \in Variants("ExitCondition") :
               /\ contains(selected_environment_supports_exit_condition, available)
               /\ contains(selected_visualiser_supports_exit_condition, available)
               /\ contains(selected_agent_supports_exit_condition, available)}

\* one call of select_interactively: the choice is read, then the answers
\* for the options, and the result is unwrapped
IntSelectInteractively ==
  /\ \E cat \in Categories :
     \E chosen_element_string \in SampleChoices(cat),
        answers \in [OptionSlots -> SampleAnswers] :
       /\ int_pc = PromptOf(cat)
       /\ \E selection \in {select_interactively(cat, predicate_for(cat),
                                                  chosen_element_string, answers)} :
            IF selection.ok
            THEN /\ int_selected' = [int_selected EXCEPT ![cat] = {selection.selected}]
                 /\ int_pc' = PromptAfter(cat)
            ELSE /\ int_pc' = "panicked"
                 /\ UNCHANGED int_selected
       /\ int_offered' = [int_offered EXCEPT
                            ![cat] = {partition(values(cat), predicate_for(cat))}]
       /\ int_asked' = Append(int_asked, cat)
  /\ UNCHANGED <<int_run_options, int_created>>
  /\ UNCHANGED int_others

\* main.rs 530-585: the two yes/no prompts, the seed, the four paths, then
\* start()
IntRunOptions ==
  /\ int_pc = "run_options"
  /\ \E yes_no_environment \in {<<>>, <<"N","o">>},
        yes_no_agent \in {<<>>, <<" ","y","e","s">>},
        seed_answer \in {<<>>, <<"7">>},
        environment_load_answer \in {<<>>, <<"e",".","j","s","o","n">>},
        agent_load_answer \in {<<>>},
        environment_store_answer \in {<<>>},
        agent_store_answer \in {<<>>, <<"a",".","r","o","n">>} :
       LET environment_load_path == prompt_string(environment_load_answer, {})
           agent_load_path == prompt_string(agent_load_answer, {})
       IN int_run_options' =
            {[seed |-> prompt_string(seed_answer, {}),
              reset_environment_on_done |-> prompt_yes_no(yes_no_environment, TRUE),
              reset_agent_on_done |-> prompt_yes_no(yes_no_agent, FALSE),
              environment_load_path |-> environment_load_path,
              environment_store_path |->
                prompt_string(environment_store_answer, environment_load_path),
              agent_load_path |-> agent_load_path,
              agent_store_path |-> prompt_string(agent_store_answer, agent_load_path)]}
  /\ int_pc' = start(CHOOSE s \in int_selected["Environment"] : TRUE,
                     CHOOSE s \in int_selected["Agent"] : TRUE,
                     CHOOSE s \in int_selected["Visualiser"] : TRUE,
                     CHOOSE s \in int_selected["ExitCondition"] : TRUE)
  /\ int_created' = start_creates(CHOOSE s \in int_selected["Environment"] : TRUE,
                                  CHOOSE s \in int_selected["Agent"] : TRUE,
                                  CHOOSE s \in int_selected["Visualiser"] : TRUE,
                                  CHOOSE s \in int_selected["ExitCondition"] : TRUE)
  /\ UNCHANGED <<int_selected, int_offered, int_asked>>
  /\ UNCHANGED int_others

IntNext == IntSelectInteractively \/ IntRunOptions

InitInteractive ==
  IntInit /\ FsIdle /\ SelIdle /\ SpIdle /\ PstIdle /\ DrvIdle /\ SiIdle /\ BatIdle

SpecInteractive == InitInteractive /\ [][IntNext]_vars

(***************************************************************************)
(* C2: compatibility is symmetric.  For every element a of one category     *)
(* and every element b of another, b is in the list a supports for b's      *)
(* category exactly when a is in the list b supports for a's category.      *)
(* Checked for each element a the user has selected, against every element  *)
(* b of every other category; every element is selected in some run.        *)
(***************************************************************************)
C2_CompatibilitySymmetric ==
  \A from \in Categories :
    int_selected[from] # {} =>
      \A to \in Categories \ {from} :
        \A b \in Variants(to) :
          contains(supports_available(from, Chosen(from), to), b)
            <=> contains(supports_available(to, b, from), Chosen(from))

\* the lists were used: the mountain car and the window were chosen and the
\* input agent, which both list, was offered and chosen after them
C2_Witness ==
  /\ int_pc = "select_exit_condition"
  /\ Chosen("Environment") = "GymMountainCar"
  /\ Chosen("Visualiser") = "PistonIn2d"
  /\ Chosen("Agent") = "Input"
  /\ contains(supports_available("Environment", "GymMountainCar", "Agent"), "Input")
  /\ contains(supports_available("Agent", "Input", "Environment"), "GymMountainCar")

(***************************************************************************)
(* C14: in every driver run load_environment and load_agent are made only   *)
(* before the first evaluation of the exit condition, store_agent and       *)
(* store_environment only after the loop was left, and no action that       *)
(* evaluates the exit condition loads or stores.                            *)
(***************************************************************************)
LastCalls == {drv_last.calls[i] : i \in 1..Len(drv_last.calls)}

C14_LoadBeforeStoreAfter ==
  /\ LastCalls \cap {"load_environment", "load_agent"} # {} => drv_phase = "Initializing"
  /\ LastCalls \cap {"store_agent", "store_environment"} # {} => drv_phase = "Draining"
  /\ "exit_condition" \in LastCalls =>
       LastCalls \cap {"load_environment", "load_agent",
                       "store_agent", "store_environment"} = {}

\* a run that loaded the environment before the loop, went through the loop
\* and has just stored the environment
C14_Witness ==
  /\ pst_environment = "state_b"
  /\ drv_resets_in_loop = 2
  /\ drv_last.calls = <<"store_environment">>
  /\ drv_pc = "close_agent"

(***************************************************************************)
(* C15: after the loop was left and nothing failed, the calls made are: the  *)
(* store of the agent exactly when an agent store path was given, the store *)
(* of the environment exactly when an environment store path was given,     *)
(* then one close of the agent, of the environment and (in the window       *)
(* driver) of the visualiser, in that order.                                *)
(***************************************************************************)
C15_DrainOrder ==
  drv_pc = "terminated" =>
    drv_drain =
      (IF drv_run_options.agent_store_path # None THEN <<"store_agent">> ELSE << >>)
      \o (IF drv_run_options.environment_store_path # None
          THEN <<"store_environment">> ELSE << >>)
      \o <<"agent.close", "environment.close">>
      \o (IF drv_kind = "two_dimensional" THEN <<"visualiser.close">> ELSE << >>)

\* a window run with an agent store path and no environment store path has
\* returned
C15_Witness ==
  /\ drv_pc = "terminated"
  /\ drv_kind = "two_dimensional"
  /\ drv_run_options.agent_store_path # None
  /\ drv_run_options.environment_store_path = None
  /\ drv_drain = <<"store_agent", "agent.close", "environment.close", "visualiser.close">>

(***************************************************************************)
(* C16: closing is attempted even if an earlier call failed: a run that     *)
(* ended, by returning or by a failed call, has called close on the agent,  *)
(* on the environment and (in the window driver) on the visualiser.         *)
(***************************************************************************)
C16_ClosedAfterFailure ==
  drv_pc \in {"terminated", "panicked"} =>
    /\ contains(drv_drain, "agent.close")
    /\ contains(drv_drain, "environment.close")
    /\ drv_kind = "two_dimensional" => contains(drv_drain, "visualiser.close")

(***************************************************************************)
(* C19 as stated: in every pass of the loop of either driver the            *)
(* environment is reset, episode incremented and step set to zero exactly   *)
(* when reset_environment_on_done is set and the step reported done;        *)
(* otherwise there is no reset, episode is unchanged and the observation of *)
(* the step is carried into the next pass.                                  *)
(***************************************************************************)
\* a step of the model that is one complete pass of the loop body
Pass == drv_pc = "loop" /\ drv_pc' = "loop" /\ drv_is_open' = drv_is_open

ResetMade ==
  /\ drv_resets_in_loop' = drv_resets_in_loop + 1
  /\ drv_episode' = drv_episode + 1
  /\ drv_step' = 0
  /\ drv_state' = "environment.reset"
  /\ contains(drv_last'.calls, "environment.reset")

NoResetMade ==
  /\ drv_resets_in_loop' = drv_resets_in_loop
  /\ drv_episode' = drv_episode
  /\ drv_step' = drv_step + 1
  /\ drv_state' = "new_state"
  /\ ~contains(drv_last'.calls, "environment.reset")

AskingOrder == <<"Environment", "Visualiser", "Agent", "ExitCondition">>

C11_OrderAndOffers ==
  /\ \E n \in 0..Len(AskingOrder) : int_asked = SubSeq(AskingOrder, 1, n)
  /\ \A k \in 1..Len(int_asked) :
       \A offered \in int_offered[int_asked[k]] :
         RangeOf(offered) =
           {available \in Variants(int_asked[k]) :
              \A j \in 1..(k - 1) :
                contains(supports_available(int_asked[j], Chosen(int_asked[j]),
                                            int_asked[k]),
                         available)}
  /\ \A k \in 1..Len(int_asked) : int_offered[int_asked[k]] # {}

\* all four selections were made, the agent Input chosen after the
\* visualiser PistonIn2d
C11_Witness ==
  /\ int_asked = AskingOrder
  /\ int_pc = "run_options"
  /\ Chosen("Visualiser") = "PistonIn2d"
  /\ Chosen("Agent") = "Input"
  /\ int_offered["ExitCondition"] = {<<"EpisodesSimulated", "VisualiserClosed">>}

(***************************************************************************)
(* C13: whenever start() is reached with the exit condition                 *)
(* VisualiserClosed and the visualiser None, it panics without having       *)
(* called any create_* function and without calling a driver.               *)
(***************************************************************************)
StartCalled == int_run_options # {}

C13_NoRunWithoutVisualiserToClose ==
  (/\ StartCalled
   /\ Chosen("Visualiser") = "None"
   /\ Chosen("ExitCondition") = "VisualiserClosed")
  => int_pc = "panicked" /\ int_created = << >>

\* start() was called for the agent Random, no visualiser and the exit
\* condition VisualiserClosed
C13_Witness ==
  /\ StartCalled
  /\ Chosen("Agent") = "Random"
  /\ Chosen("Visualiser") = "None"
  /\ Chosen("ExitCondition") = "VisualiserClosed"
  /\ int_pc = "panicked"

(***************************************************************************)
(* One call of select_interactively, for any category, any predicate and   *)
(* any line read as the choice.                                            *)
(***************************************************************************)
SiInit ==
  /\ si_category \in Categories
  /\ si_predicate \in SUBSET Variants(si_category)
  /\ si_line = {}
  /\ si_result = {}

\* the panic for an empty list of available elements (main.rs 645-650) comes
\* before the read_line of the choice (676-679)
SiSelectInteractively ==
  /\ si_result = {}
  /\ \E chosen_element_string \in SampleChoices(si_category),
        answers \in [OptionSlots -> {<<>>, <<"2">>}] :
       /\ si_line' = IF partition(values(si_category), si_predicate) = << >>
                     THEN {} ELSE {chosen_element_string}
       /\ si_result' = {select_interactively(si_category, si_predicate,
                                             chosen_element_string, answers)}
  /\ UNCHANGED <<si_category, si_predicate>>
  /\ UNCHANGED si_others

SiNext == SiSelectInteractively

InitSelectInteractively ==
  SiInit /\ FsIdle /\ SelIdle /\ SpIdle /\ PstIdle /\ DrvIdle /\ IntIdle /\ BatIdle

SpecSelectInteractively == InitSelectInteractively /\ [][SiNext]_vars

(***************************************************************************)
(* C20: whatever the predicate and the line read, the variant              *)
(* select_interactively makes a Selection of is one the predicate holds    *)
(* for, so one of the offered list; a variant listed as not available is   *)
(* never selected, by index or by name.                                    *)
(***************************************************************************)
C20_SelectedWasOffered ==
  \A result \in si_result :
    result.ok => corresponding_available(result.selected) \in si_predicate

\* what does hold: a variant selected by its index was offered
C20_SelectedByIndexWasOffered ==
  \A result \in si_result : \A line \in si_line :
    (result.ok /\ ParseUnsigned(trim(line), UsizeMax).ok)
      => corresponding_available(result.selected) \in si_predicate

(***************************************************************************)
(* The command_line front-end: clap's get_matches, then start_with_config. *)
(***************************************************************************)
ConfigOrder == <<"Environment", "Agent", "Visualiser", "ExitCondition">>

\* the name of the argument of a category and of its configuration
ArgOf(cat) ==
  CASE cat = "Environment"   -> "environment"
    [] cat = "Agent"         -> "agent"
    [] cat = "Visualiser"    -> "visualiser"
    [] cat = "ExitCondition" -> "exit_condition"

ConfigurationArgOf(cat) ==
  CASE cat = "Environment"   -> "environment_configuration"
    [] cat = "Agent"         -> "agent_configuration"
    [] cat = "Visualiser"    -> "visualiser_configuration"
    [] cat = "ExitCondition" -> "exit_condition_configuration"

\* .default_value(..) of the arguments; `environment` is .required(true)
default_value(name) ==
  CASE name = "agent"          -> {nice_name("Random")}
    [] name = "visualiser"     -> {nice_name("None")}
    [] name = "exit_condition" -> {nice_name("EpisodesSimulated")}
    [] name \in {"environment_configuration", "agent_configuration",
                 "visualiser_configuration", "exit_condition_configuration"} -> {<<>>}
    [] OTHER -> {}

\* ArgMatches::value_of: the value given, else the default, else None
value_of(args, name) == IF args[name] # {} THEN args[name] ELSE default_value(name)

\* .possible_values(..) with .case_insensitive(true)
possible_values(cat) ==
  UNION {{nice_name(v), short_name(v), long_name(v)} : v \in Variants(cat)}

is_possible_value(cat, text) ==
  \E possible \in possible_values(cat) : to_lowercase(possible) = to_lowercase(text)

SampleArgs ==
  [environment : {{}, {short_name("GymMountainCar")}, {<<"C","B","_","D","R","I","V","E">>}, {<<"g","y","m">>}},
   environment_configuration : {{}, {goal_velocity \o <<"=","x">>}},
   agent : {{}, {short_name("Input")}},
   agent_configuration : {{}},
   visualiser : {{}, {short_name("PistonIn2d")}},
   visualiser_configuration : {{}, {window_dimension \o <<"=","a","b","c">>},
                               {window_dimension \o <<"=","(","8",",","6",")">>}},
   exit_condition : {{}, {short_name("VisualiserClosed")}},
   exit_condition_configuration : {{}, {count_of_episodes \o <<"=","-","1">>},
                                   {count_of_episodes \o <<"=","2">>}},
   seed : {{}, {<<"7">>}},
   not_reset_environment_on_done : BOOLEAN,
   reset_agent_on_done : BOOLEAN,
   environment_load_path : {{}},
   environment_store_path : {{}},
   agent_load_path : {{}},
   agent_store_path : {{}}]

BatInit ==
  /\ bat_args \in SampleArgs
  /\ bat_pc = "get_matches"
  /\ bat_selected = NoSelection
  /\ bat_run_options = {}
  /\ bat_created = << >>

\* get_matches(): clap leaves with a usage error when the required
\* environment is missing or a name is not one of the possible values
BatGetMatches ==
  /\ bat_pc = "get_matches"
  /\ bat_pc' =
       IF \A cat \in Categories :
            \E text \in value_of(bat_args, ArgOf(cat)) : is_possible_value(cat, text)
       THEN "start_with_config" ELSE "usage_error"
  /\ UNCHANGED <<bat_args, bat_selected, bat_run_options, bat_created>>
  /\ UNCHANGED bat_others

\* value_of(..).unwrap().parse::<A>().unwrap().select(split_config(..)) of one
\* category; the unwrap of the result is made by BatStartWithConfig
resolve(cat, args) ==
  LET parsed == from_str(cat, CHOOSE text \in value_of(args, ArgOf(cat)) : TRUE)
  IN IF ~parsed.ok THEN SelectPanic("from_str")
     ELSE select(cat, parsed.available,
                 split_config(CHOOSE text \in value_of(args, ConfigurationArgOf(cat)) : TRUE))

\* start_with_config: the four selections in the order of the code, each
\* unwrapped, then the run options, then start()
BatStartWithConfig ==
  /\ bat_pc = "start_with_config"
  /\ \E resolved \in {[cat \in Categories |-> resolve(cat, bat_args)]} :
       LET failing == {k \in 1..Len(ConfigOrder) : ~resolved[ConfigOrder[k]].ok}
           reached == IF failing = {} THEN Len(ConfigOrder)
                      ELSE FirstOf(failing) - 1
           selections == [cat \in Categories |->
                            IF \E k \in 1..reached : ConfigOrder[k] = cat
                            THEN {resolved[cat].selected} ELSE {}]
       IN /\ bat_selected' = selections
          /\ IF failing # {}
             THEN /\ bat_pc' = "panicked"
                  /\ UNCHANGED <<bat_run_options, bat_created>>
             ELSE /\ bat_run_options' =
                       {[seed |-> value_of(bat_args, "seed"),
                         reset_environment_on_done |->
                           ~bat_args.not_reset_environment_on_done,
                         reset_agent_on_done |-> bat_args.reset_agent_on_done,
                         environment_load_path |-> value_of(bat_args, "environment_load_path"),
                         environment_store_path |-> value_of(bat_args, "environment_store_path"),
                         agent_load_path |-> value_of(bat_args, "agent_load_path"),
                         agent_store_path |-> value_of(bat_args, "agent_store_path")]}
                  /\ bat_pc' = start(CHOOSE x \in selections["Environment"] : TRUE,
                                     CHOOSE x \in selections["Agent"] : TRUE,
                                     CHOOSE x \in selections["Visualiser"] : TRUE,
                                     CHOOSE x \in selections["ExitCondition"] : TRUE)
                  /\ bat_created' =
                       start_creates(CHOOSE x \in selections["Environment"] : TRUE,
                                     CHOOSE x \in selections["Agent"] : TRUE,
                                     CHOOSE x \in selections["Visualiser"] : TRUE,
                                     CHOOSE x \in selections["ExitCondition"] : TRUE)
  /\ UNCHANGED bat_args
  /\ UNCHANGED bat_others

BatNext == BatGetMatches \/ BatStartWithConfig

InitBatch ==
  BatInit /\ FsIdle /\ SelIdle /\ SpIdle /\ PstIdle /\ DrvIdle /\ IntIdle /\ SiIdle

SpecBatch == InitBatch /\ [][BatNext]_vars

(***************************************************************************)
(* C17: a configuration error aborts the run before anything is built: when *)
(* the name given for a category is not recognised, or a value given for an *)
(* option of the chosen variant is malformed, the run ends without any      *)
(* create_* call and without a driver being called.                         *)
(***************************************************************************)
BatEnded == bat_pc \notin {"get_matches", "start_with_config"}

UnrecognisedName(cat) ==
  \A text \in value_of(bat_args, ArgOf(cat)) : ~from_str(cat, text).ok

MalformedOptions(cat) ==
  IF UnrecognisedName(cat) THEN {}
  ELSE LET available ==
             from_str(cat, CHOOSE text \in value_of(bat_args, ArgOf(cat)) : TRUE).available
           configuration ==
             split_config(CHOOSE text \in value_of(bat_args, ConfigurationArgOf(cat)) : TRUE)
       IN {available_configurations(available)[i] :
             i \in Malformed(available, configuration)}

AbortedBeforeConstruction ==
  /\ bat_pc \in {"usage_error", "panicked"}
  /\ bat_created = << >>
  /\ bat_run_options = {}

C17_ConfigurationErrorsAbort ==
  (/\ BatEnded
   /\ \E cat \in Categories : UnrecognisedName(cat) \/ MalformedOptions(cat) # {})
  => AbortedBeforeConstruction

\* what does hold: the same for the names and for the options whose type is
\* not the pair of unsigned integers
C17_NameAndScalarErrorsAbort ==
  (/\ BatEnded
   /\ \E cat \in Categories :
        \/ UnrecognisedName(cat)
        \/ \E d \in MalformedOptions(cat) : d.data_type # "(u32, u32)")
  => AbortedBeforeConstruction

(***************************************************************************)
(* C12: in a command_line run, a combination of the four chosen variants    *)
(* that is not mutually supported is rejected before a driver is called.    *)
(* The case of the claim is a run whose names are all recognised and whose  *)
(* variants are not mutually supported; with the supports_available lists   *)
(* of the code no run is in this case.                                      *)
(***************************************************************************)
NamedVariant(cat) ==
  from_str(cat, CHOOSE text \in value_of(bat_args, ArgOf(cat)) : TRUE).available

C12_UnsupportedCombination ==
  /\ bat_pc # "idle"
  /\ \A cat \in Categories : ~UnrecognisedName(cat)
  /\ \E a \in Categories : \E b \in Categories \ {a} :
       ~contains(supports_available(a, NamedVariant(a), b), NamedVariant(b))

C12_NoUnsupportedCombination == ~C12_UnsupportedCombination

(***************************************************************************)
(* C21: a combination in which every pair of chosen variants is mutually    *)
(* supported according to supports_available is dispatched by start() to a  *)
(* driver; it never reaches a panic of the dispatch.                        *)
(***************************************************************************)
MutuallySupportedSelection ==
  \A a \in Categories : \A b \in Categories \ {a} :
    contains(supports_available(a, Chosen(a), b), Chosen(b))

C21_SupportedIsDispatched ==
  (StartCalled /\ MutuallySupportedSelection)
  => int_pc \in {"run_with_no_visualiser", "run_with_two_dimensional_visualiser"}

(***************************************************************************)
(* C30: once the visualiser None was chosen in the interactive front-end,   *)
(* the list offered for the exit condition does not hold VisualiserClosed,  *)
(* whatever environment and agent were chosen.                              *)
(***************************************************************************)
C30_NoVisualiserClosedWithoutVisualiser ==
  \A selected \in int_selected["Visualiser"] :
    corresponding_available(selected) = "None"
    => \A offered \in int_offered["ExitCondition"] :
         ~contains(offered, "VisualiserClosed")

(***************************************************************************)
(* C28 as stated: the episodes-simulated exit condition, of either driver,  *)
(* is true exactly when episode >= count_of_episodes, and a run under it    *)
(* has left the loop only with episode >= count_of_episodes.                *)
(***************************************************************************)
AfterLoop ==
  drv_pc \in {"store_agent", "store_environment", "close_agent", "close_environment",
              "close_visualiser", "terminated"}

BudgetSpent == drv_episode >= drv_exit_condition.count_of_episodes

WindowClosed == drv_kind = "two_dimensional" /\ ~drv_is_open

C28_ExitIffBudgetSpent ==
  drv_exit_condition.name = "EpisodesSimulated" =>
    /\ drv_pc = "loop" => (ExitNow <=> BudgetSpent)
    /\ AfterLoop => BudgetSpent

(***************************************************************************)
(* C28 amended: in its headless form the condition is true exactly when     *)
(* episode >= count_of_episodes; in its visualiser form exactly when the    *)
(* visualiser is no longer open or episode >= count_of_episodes; a run has  *)
(* left the loop only with episode >= count_of_episodes or, with a          *)
(* visualiser, with the visualiser closed.                                  *)
(***************************************************************************)
C28_ExitIffBudgetSpentOrClosed ==
  drv_exit_condition.name = "EpisodesSimulated" =>
    /\ drv_pc = "loop" => (ExitNow <=> (BudgetSpent \/ WindowClosed))
    /\ AfterLoop => (BudgetSpent \/ WindowClosed)

\* a run with a visualiser has left the loop in its first episode, the
\* window closed, two episodes asked for
C28_Witness ==
  /\ drv_kind = "two_dimensional"
  /\ drv_exit_condition = [name |-> "EpisodesSimulated", count_of_episodes |-> 2]
  /\ drv_pc = "store_agent"
  /\ drv_episode = 0
  /\ drv_step = 1
  /\ ~drv_is_open

(***************************************************************************)
(* C23: the environment is loaded from its load path when one is given,     *)
(* environment.state() then being the first observation, with no reseed or  *)
(* reset of the environment; otherwise it is reseeded with the seed of the  *)
(* run and reset, the result of the reset being the first observation.  The *)
(* agent is loaded when its load path is given, with no reseed or reset;    *)
(* otherwise it is reseeded with the same seed and reset.  Either decision  *)
(* looks at the path of its own component only.                             *)
(***************************************************************************)
IsPrefix(calls, of) == Len(calls) <= Len(of) /\ calls = SubSeq(of, 1, Len(calls))

\* the calls an initialisation made are `expected`, or its beginning up to
\* the call that failed
MadeOrFailedIn(expected) ==
  /\ drv_last'.calls # << >>
  /\ IsPrefix(drv_last'.calls, expected)
  /\ IF drv_failed' = "none" THEN drv_last'.calls = expected
     ELSE drv_failed' = drv_last'.calls[Len(drv_last'.calls)]

InitialisesEnvironment ==
  (drv_pc = "init_environment" /\ drv_pc' # drv_pc) =>
    /\ drv_run_options'.seed = drv_run_options.seed
    /\ IF drv_run_options.environment_load_path # None
       THEN /\ MadeOrFailedIn(<<"load_environment", "environment.state">>)
            /\ drv_args'["load_environment"] \in drv_run_options.environment_load_path
            /\ drv_failed' = "none" =>
                 /\ drv_state' = "environment.state"
                 /\ \A path \in drv_run_options.environment_load_path :
                      pst_environment' = pst_files[path].data
       ELSE /\ MadeOrFailedIn(<<"environment.reseed", "environment.reset">>)
            /\ drv_args'["environment.reseed"] = drv_run_options.seed
            /\ pst_environment' = pst_environment
            /\ drv_failed' = "none" => drv_state' = "environment.reset"

InitialisesAgent ==
  (drv_pc = "init_agent" /\ drv_pc' # drv_pc) =>
    /\ drv_state' \in {drv_state, "none"}
    /\ IF drv_run_options.agent_load_path # None
       THEN /\ MadeOrFailedIn(<<"load_agent">>)
            /\ drv_args'["load_agent"] \in drv_run_options.agent_load_path
            /\ drv_failed' = "none" =>
                 \A path \in drv_run_options.agent_load_path :
                   pst_agent' = pst_files[path].data
       ELSE /\ MadeOrFailedIn(<<"agent.reseed", "agent.reset">>)
            /\ drv_args'["agent.reseed"] = drv_run_options.seed
            /\ pst_agent' = pst_agent

C23_InitialisationPerComponent ==
  [][InitialisesEnvironment /\ InitialisesAgent]_vars

\* the environment was loaded and the agent, with no load path, reseeded
\* and reset
C23_Witness ==
  /\ drv_pc = "loop"
  /\ drv_phase = "Initializing"
  /\ pst_environment = "state_b"
  /\ drv_state = "environment.state"
  /\ drv_last.calls = <<"agent.reseed", "agent.reset">>
  /\ drv_args["agent.reseed"] = Some(7)

(***************************************************************************)
(* C24: the exit condition is evaluated exactly once before every step,     *)
(* with the counters of that moment; once it is true no choose_action, step *)
(* or process_reward follows, so a run that left the loop has evaluated it  *)
(* once more often than it has stepped, and a condition that is true at the *)
(* first evaluation gives a run with no step.                               *)
(***************************************************************************)
StepCalls == {"agent.choose_action", "environment.step", "agent.process_reward"}

EvaluatedOncePerStep ==
  /\ Count(drv_last.calls, "exit_condition") <= 1
  /\ LastCalls \cap StepCalls # {} =>
       /\ drv_last.calls[1] = "exit_condition"
       /\ Count(drv_last.calls, "environment.step") <= 1
  /\ drv_pc = "loop" => drv_ahead.exit_condition = 0
  /\ AfterLoop =>
       /\ drv_ahead.exit_condition = 1
       /\ LastCalls \cap StepCalls = {}

\* a step of the model that begins at the head of the loop
LoopStep == drv_pc = "loop" /\ drv_is_open' = drv_is_open

C24_OneEvaluationPerStep ==
  [][ /\ EvaluatedOncePerStep'
      /\ LoopStep =>
           /\ drv_last'.calls[1] = "exit_condition"
           /\ (ExitNow <=> drv_last'.calls = <<"exit_condition">>)
           /\ (ExitNow <=> drv_pc' = "store_agent")
      /\ (LoopStep /\ ExitNow /\ drv_phase = "Initializing") =>
           drv_episode' = 0 /\ drv_step' = 0 ]_vars

\* a headless run of two episodes has returned
C24_Witness ==
  /\ drv_kind = "no_visualiser"
  /\ drv_pc = "terminated"
  /\ drv_episode = 2
  /\ drv_exit_condition.count_of_episodes = 2
  /\ drv_ahead.exit_condition = 1

(***************************************************************************)
(* C25: within a pass of the loop the calls are made in the order           *)
(* agent.choose_action(current observation), environment.step(that          *)
(* action), agent.process_reward(observation before the step, observation   *)
(* after it, reward, done), then the reset of the environment, if any, then *)
(* the reset of the agent, if any; the step counter is one more after the   *)
(* step; process_reward is called exactly once and before any reset.        *)
(***************************************************************************)
Rank(call) ==
  CASE call = "exit_condition" -> 0
    [] call = "agent.choose_action" -> 1
    [] call = "environment.step" -> 2
    [] call = "agent.process_reward" -> 3
    [] call = "environment.reset" -> 4
    [] call = "agent.reset" -> 5
    [] call = "visualiser.render_two_dimensional" -> 6
    [] call = "sleep_suggested_steps_per_second_or_30_fps" -> 7

InOrder(calls) ==
  /\ \A i \in 1..Len(calls) : \A j \in (i + 1)..Len(calls) :
       Rank(calls[i]) < Rank(calls[j])
  /\ \A i \in 1..Len(calls) :
       Rank(calls[i]) \in 1..3 => i > 1 /\ Rank(calls[i - 1]) = Rank(calls[i]) - 1
  /\ \A i \in 1..Len(calls) :
       Rank(calls[i]) \in 4..5 => contains(calls, "agent.process_reward")

C25_OrderWithinIteration ==
  [][ (LoopStep /\ ~ExitNow) =>
        LET calls == drv_last'.calls
        IN /\ InOrder(calls)
           /\ "agent.choose_action" \in DOMAIN drv_args' =>
                drv_args'["agent.choose_action"] = <<drv_state>>
           /\ "environment.step" \in DOMAIN drv_args' =>
                drv_args'["environment.step"] = <<"action">>
           /\ "agent.process_reward" \in DOMAIN drv_args' =>
                drv_args'["agent.process_reward"] =
                  <<drv_state, "new_state", "reward", drv_last'.done>>
           /\ drv_failed' = "none" =>
                /\ SubSeq(calls, 1, 4) = <<"exit_condition", "agent.choose_action",
                                           "environment.step", "agent.process_reward">>
                /\ DOMAIN drv_args' = StepCalls
                /\ drv_step' \in {drv_step + 1, 0}
                /\ drv_step' = 0 <=> contains(calls, "environment.reset") ]_vars

\* a pass of the headless driver that reset the environment and the agent
C25_Witness ==
  /\ drv_kind = "no_visualiser"
  /\ drv_pc = "loop"
  /\ drv_last.calls = <<"exit_condition", "agent.choose_action", "environment.step",
                        "agent.process_reward", "environment.reset", "agent.reset">>
  /\ drv_args["agent.process_reward"] = <<"new_state", "new_state", "reward", TRUE>>

(***************************************************************************)
(* C26: in a pass of the loop the agent is reset exactly when               *)
(* reset_agent_on_done is set and the step reported done, whatever          *)
(* reset_environment_on_done is and whether or not the environment was      *)
(* reset in the pass.                                                       *)
(***************************************************************************)
C26_AgentResetIffDone ==
  [][ (LoopStep /\ ~ExitNow) =>
        LET wanted == drv_run_options.reset_agent_on_done /\ drv_last'.done
        IN /\ contains(drv_last'.calls, "agent.reset") => wanted
           /\ drv_failed' = "none" =>
                (wanted <=> Count(drv_last'.calls, "agent.reset") = 1) ]_vars

\* a pass that reset the agent and not the environment
C26_Witness ==
  /\ drv_pc = "loop"
  /\ ~drv_run_options.reset_environment_on_done
  /\ drv_run_options.reset_agent_on_done
  /\ drv_last.done
  /\ contains(drv_last.calls, "agent.reset")
  /\ ~contains(drv_last.calls, "environment.reset")
  /\ drv_step = 2

(***************************************************************************)
(* C27: with a visualiser the environment is rendered once before the first *)
(* evaluation of the exit condition and once at the end of every pass of    *)
(* the loop, after the resets of the pass and followed by one sleep, so     *)
(* that a run has rendered once more often than it has stepped and slept as *)
(* often as it has stepped; the headless driver never renders or sleeps.    *)
(***************************************************************************)
RenderCalls ==
  {"visualiser.render_two_dimensional", "sleep_suggested_steps_per_second_or_30_fps"}

RenderedAndPaced ==
  /\ drv_kind = "no_visualiser" => LastCalls \cap RenderCalls = {}
  /\ (drv_kind = "two_dimensional" /\ drv_failed = "none") =>
       /\ drv_pc \in {"init_environment", "first_render"} =>
            drv_ahead.render = 0 /\ drv_ahead.sleep = 0
       /\ (drv_pc \in {"init_agent", "loop"} \/ AfterLoop) =>
            drv_ahead.render = 1 /\ drv_ahead.sleep = 0

\* the pass ends with one render and one sleep, nothing between or after them
EndsRenderedAndPaced(calls) ==
  /\ Len(calls) >= 6
  /\ SubSeq(calls, Len(calls) - 1, Len(calls)) =
       <<"visualiser.render_two_dimensional",
         "sleep_suggested_steps_per_second_or_30_fps">>
  /\ \A i \in 1..(Len(calls) - 2) : calls[i] \notin RenderCalls

C27_RenderAndPace ==
  [][ /\ RenderedAndPaced'
      /\ (drv_pc = "first_render" /\ drv_pc' # drv_pc) =>
           drv_last'.calls = <<"visualiser.render_two_dimensional">>
      /\ (LoopStep /\ ~ExitNow /\ drv_kind = "two_dimensional"
            /\ drv_failed' = "none") =>
           EndsRenderedAndPaced(drv_last'.calls) ]_vars

\* a pass with a visualiser that reset environment and agent, rendered and slept
C27_Witness ==
  /\ drv_kind = "two_dimensional"
  /\ drv_pc = "loop"
  /\ drv_episode = 1
  /\ drv_ahead.render = 1
  /\ drv_last.calls = <<"exit_condition", "agent.choose_action", "environment.step",
                        "agent.process_reward", "environment.reset", "agent.reset",
                        "visualiser.render_two_dimensional",
                        "sleep_suggested_steps_per_second_or_30_fps">>

(***************************************************************************)
(* C29: every error ends the run where it occurs: after a failed load,      *)
(* reseed, reset, choose_action, step, process_reward, render, store or     *)
(* close the driver makes no further call on the environment, the agent or  *)
(* the visualiser; no step follows a failed load and no store of the        *)
(* environment follows a failed store of the agent.                         *)
(***************************************************************************)
FallibleCalls ==
  {"load_environment", "environment.reseed", "environment.reset", "load_agent",
   "agent.reseed", "agent.reset", "agent.choose_action", "environment.step",
   "agent.process_reward", "visualiser.render_two_dimensional",
   "store_agent", "store_environment",
   "agent.close", "environment.close", "visualiser.close"}

AbortedAtTheError ==
  /\ drv_failed # "none" <=> drv_pc = "panicked"
  /\ drv_failed # "none" =>
       /\ drv_failed \in FallibleCalls
       /\ drv_last.calls # << >>
       /\ drv_last.calls[Len(drv_last.calls)] = drv_failed
       /\ Count(drv_last.calls, drv_failed) = 1
  /\ drv_failed \in {"load_environment", "load_agent"} =>
       drv_phase = "Initializing" /\ drv_ahead.exit_condition = 0
  /\ drv_failed = "store_agent" => ~contains(drv_drain, "store_environment")

C29_ErrorsAbort ==
  [][drv_pc # "panicked" /\ AbortedAtTheError']_vars

\* the store of the agent failed with a store path of the environment given
C29_Witness ==
  /\ drv_pc = "panicked"
  /\ drv_failed = "store_agent"
  /\ drv_run_options.environment_store_path # None
  /\ drv_last.calls = <<"store_agent">>

(***************************************************************************)
(* C22 as stated: the two drivers are the same state machine apart from     *)
(* rendering and pacing: with the same run options, the same results of     *)
(* environment and agent and exit conditions that agree, both make the same *)
(* calls on environment and agent and hold the same episode and step at     *)
(* every loop head.  Checked step by step: what either driver would do from *)
(* the state the run is in is what the run does.                            *)
(***************************************************************************)
Kinds == {"no_visualiser", "two_dimensional"}

VisualiserCalls == RenderCalls \cup {"visualiser.close"}

EnvironmentAndAgentCalls(calls) ==
  SelectSeq(calls, LAMBDA call : call \notin VisualiserCalls \cup {"exit_condition"})

\* episode and step at the next loop head
counters_after(kind, run_options, episode, step, done) ==
  IF starts_new_episode(kind, run_options, step + 1, done)
  THEN <<episode + 1, 0>>
  ELSE <<episode, step + 1>>

\* the pass the run makes is the pass the driver of `kind` makes
SamePassAs(kind) ==
  LET mine == EnvironmentAndAgentCalls(drv_last'.calls)
      theirs == EnvironmentAndAgentCalls(
                  loop_body(kind, drv_run_options, drv_step, drv_last'.done))
  IN IF drv_failed' = "none"
     THEN /\ mine = theirs
          /\ <<drv_episode', drv_step'>> =
               counters_after(kind, drv_run_options, drv_episode, drv_step,
                              drv_last'.done)
     ELSE \E done \in BOOLEAN :
            IsPrefix(mine, EnvironmentAndAgentCalls(
                             loop_body(kind, drv_run_options, drv_step, done)))

\* the steps only the window driver has touch neither environment nor agent
\* nor the counters
VisualiserStepsApart ==
  (drv_pc \in {"first_render", "close_visualiser"} \/ drv_is_open' # drv_is_open) =>
    /\ drv_last'.calls = drv_last.calls
         \/ EnvironmentAndAgentCalls(drv_last'.calls) = << >>
    /\ drv_pc' # "panicked" => <<drv_episode', drv_step'>> = <<drv_episode, drv_step>>
    /\ UNCHANGED <<pst_environment, pst_agent, pst_files, drv_run_options>>

SiOffered == partition(values(si_category), si_predicate)

SiIsIndex(line) ==
  LET index == ParseUnsigned(trim(line), UsizeMax)
  IN index.ok /\ index_into(SiOffered, index.value).ok

SiIsName(line) ==
  ~ParseUnsigned(trim(line), UsizeMax).ok /\ from_str(si_category, trim(line)).ok

\* the call ended in the error of the choice, not in one of an option
SiChoiceError(result) == ~result.ok /\ result.cause = "Couldn't parse"

C31_IndexNameOrError ==
  \A result \in si_result : \A line \in si_line :
    SiOffered # << >> =>
      /\ SiIsIndex(line) =>
           /\ ~SiChoiceError(result)
           /\ result.ok =>
                corresponding_available(result.selected) =
                  index_into(SiOffered, ParseUnsigned(trim(line), UsizeMax).value).available
      /\ SiIsName(line) =>
           /\ ~SiChoiceError(result)
           /\ result.ok =>
                corresponding_available(result.selected) =
                  from_str(si_category, trim(line)).available
      /\ (~SiIsIndex(line) /\ ~SiIsName(line)) => SiChoiceError(result)

(***************************************************************************)
(* C32: when the predicate holds for no variant of the category,           *)
(* select_interactively panics before it reads a line: no choice is read   *)
(* and no Selection is returned.                                           *)
(***************************************************************************)
C32_EmptyListAborts ==
  \A result \in si_result :
    SiOffered = << >> =>
      /\ si_line = {}
      /\ ~result.ok
      /\ result.error = "panic"
      /\ result.cause = "There are no elements with the previous selections!"

\* the call was made with a predicate that holds for nothing
C32_Witness ==
  /\ si_predicate = {}
  /\ si_line = {}
  /\ \E result \in si_result : result.error = "panic"

(***************************************************************************)
(* C33: for unsigned 32-bit numbers a and b, the option window_dimension   *)
(* of PistonIn2d given as "(a,b)" or "a,b", with any whitespace around     *)
(* each number, is resolved to (a, b).                                     *)
(***************************************************************************)
\* the numbers and the whitespace the texts of the model are written with; the
\* value of a numeral is the numeral without its leading zeros
PairNumbers ==
  { <<"0">>, <<"1">>, <<"2">>, <<"4","8","0">>, <<"6","0","0">>, <<"6","4","0">>,
    <<"8","0","0">>, U32Max }

PairBlanks == { <<>>, <<" ">> }

\* the text of a pair: a and b as written, blanks around each, a comma
\* between, parentheses around all or none
PairText(a, b, blanks, parenthesised) ==
  LET body == blanks[1] \o a \o blanks[2] \o <<",">> \o blanks[3] \o b \o blanks[4]
  IN IF parenthesised THEN <<"(">> \o body \o <<")">> ELSE body

Pieces(text) == 1 + Cardinality({i \in 1..Len(text) : text[i] = ","})

DefaultWindowDimension == << <<"6","4","0">>, <<"4","8","0">> >>

C34_ExactlyTwoNumbers ==
  \A r \in sel_result :
    (/\ sel_available = "PistonIn2d"
     /\ window_dimension \in DOMAIN sel_configuration
     /\ Pieces(sel_configuration[window_dimension]) # 2)
    => (r.ok => r.selected.window_dimension = DefaultWindowDimension)

(***************************************************************************)
(* C35: in split_config a backslash that is not itself escaped is dropped  *)
(* and makes the next character literal: that character, be it ';', '\'    *)
(* or '=', is appended to the key or value being read and separates        *)
(* nothing; a backslash that is the last character of the input adds       *)
(* nothing to the result.                                                  *)
(***************************************************************************)
\* the number of backslashes that stand directly before position i
BackslashesBefore(text, i) ==
  LET runs == {j \in 1..i : \A k \in j..(i - 1) : text[k] = "\\"}
  IN i - (CHOOSE j \in runs : \A k \in runs : j <= k)

\* position i follows a backslash that is not itself escaped
IsEscaped(text, i) == BackslashesBefore(text, i) % 2 = 1

\* key, value, map and side of '=' after the first n characters
Scanned(text, n) ==
  LET st == ScanFrom(ScanStart, SubSeq(text, 1, n), 1)
  IN [output |-> st.output, key |-> st.key, value |-> st.value,
      currently_parsing_value |-> st.currently_parsing_value]

C35_BackslashMakesLiteral ==
  \A r \in sp_result :
    /\ \A i \in 1..Len(sp_input) :
         LET before == Scanned(sp_input, i - 1)
             after == Scanned(sp_input, i)
         IN /\ IsEscaped(sp_input, i) =>
                 after = IF before.currently_parsing_value
                         THEN [before EXCEPT !.value = Append(@, sp_input[i])]
                         ELSE [before EXCEPT !.key = Append(@, sp_input[i])]
            /\ (~IsEscaped(sp_input, i) /\ sp_input[i] = "\\") => after = before
    /\ (sp_input # <<>> /\ sp_input[Len(sp_input)] = "\\"
          /\ ~IsEscaped(sp_input, Len(sp_input))) =>
         r = split_config(SubSeq(sp_input, 1, Len(sp_input) - 1))

\* an escaped '=' went into the key, the '=' after it began the value
C35_Witness ==
  \E r \in sp_result :
    /\ sp_input = <<"\\","=","=","a">>
    /\ r = Insert(EmptyMap, <<"=">>, <<"a">>)

(***************************************************************************)
(* C36: in split_config every ';' that no backslash escapes separates two  *)
(* pairs, so no key and no value of the map contains a ';' that was        *)
(* unescaped in the input; in particular, when the input holds no escaped  *)
(* ';', no key and no value holds a ';' at all.                            *)
(***************************************************************************)
EscapedSemicolons(text) ==
  {i \in 1..Len(text) : text[i] = ";" /\ IsEscaped(text, i)}

C36_UnescapedSemicolonSeparates ==
  \A r \in sp_result :
    EscapedSemicolons(sp_input) = {} =>
      \A k \in DOMAIN r : ~HasChar(k, ";") /\ ~HasChar(r[k], ";")

(***************************************************************************)
(* C37: a headless run under EpisodesSimulated with budget N leaves the    *)
(* loop after at most N * 2001 steps, whatever done flags the environment  *)
(* returns and whatever reset_environment_on_done is, when no call fails.  *)
(* Shown by a measure that is N * 2001 before the first step, never        *)
(* negative at a loop head, and at least one less after every step; the    *)
(* loop is left as soon as the episode counter has reached N.              *)
(***************************************************************************)
LongestEpisode == StepLimit + 1

StepsLeft(episode, step) ==
  (drv_exit_condition.count_of_episodes - episode) * LongestEpisode - step

HeadlessPass ==
  /\ drv_kind = "no_visualiser"
  /\ LoopStep
  /\ ~ExitNow
  /\ drv_failed' = "none"

C37_HeadlessRunIsBounded ==
  [][ /\ (drv_kind = "no_visualiser" /\ drv_pc = "init_agent" /\ drv_pc' = "loop") =>
           StepsLeft(drv_episode', drv_step') =
             drv_exit_condition.count_of_episodes * LongestEpisode
      /\ HeadlessPass =>
           /\ Count(drv_last'.calls, "environment.step") = 1
           /\ StepsLeft(drv_episode', drv_step') >= 0
           /\ StepsLeft(drv_episode', drv_step') <= StepsLeft(drv_episode, drv_step) - 1
      /\ (drv_kind = "no_visualiser" /\ LoopStep) =>
           (drv_episode >= drv_exit_condition.count_of_episodes
              <=> drv_pc' = "store_agent") ]_vars

\* a headless run that never resets on done has left the loop after two
\* episodes, each ended by the step limit
C37_Witness ==
  /\ drv_kind = "no_visualiser"
  /\ ~drv_run_options.reset_environment_on_done
  /\ drv_exit_condition.count_of_episodes = 2
  /\ drv_episode = 2
  /\ drv_pc = "store_agent"
  /\ drv_resets_in_loop = 2

(***************************************************************************)
(* C38: at every evaluation of the exit condition, in either driver, the   *)
(* episode counter is the number of resets of the environment made inside  *)
(* the loop and the step counter the number of steps taken since the last  *)
(* of them (since the start if there was none); the episode counter never  *)
(* decreases, and the step counter goes to zero exactly when the episode   *)
(* counter goes up.                                                        *)
(***************************************************************************)
CountersAtLoopHead ==
  /\ drv_pc \in {"init_environment", "first_render", "init_agent"} =>
       drv_episode = 0 /\ drv_step = 0 /\ drv_resets_in_loop = 0
  /\ (drv_pc = "loop" \/ AfterLoop) => drv_episode = drv_resets_in_loop
  /\ (drv_pc = "loop" /\ drv_phase = "Initializing") => drv_step = 0

C38_CounterInvariant ==
  [][ /\ CountersAtLoopHead'
      /\ drv_pc' # "panicked" => drv_episode' >= drv_episode
      /\ (LoopStep /\ drv_pc' = "loop") =>
           LET resets == Count(drv_last'.calls, "environment.reset")
               steps == Count(drv_last'.calls, "environment.step")
           IN /\ drv_episode' = drv_episode + resets
              /\ drv_step' = IF resets > 0 THEN 0 ELSE drv_step + steps
              /\ steps = 1
              /\ drv_step' = 0 <=> drv_episode' = drv_episode + 1
      /\ (LoopStep /\ drv_pc' = "store_agent") =>
           drv_episode' = drv_episode /\ drv_step' = drv_step ]_vars

\* a run with a visualiser is at the loop head one step after its first
\* reset inside the loop
C38_Witness ==
  /\ drv_kind = "two_dimensional"
  /\ drv_pc = "loop"
  /\ drv_episode = 1
  /\ drv_step = 1
  /\ drv_resets_in_loop = 1
  /\ ~contains(drv_last.calls, "environment.reset")

=============================================================================
